---- MODULE Spec2Model ----
(***************************************************************************)
(* Frame store of relais: the in-process backend (pkg/storage/mem.go) and  *)
(* the Redis backend (RedisStorage), driven sequentially (SpecSeq),        *)
(* sequentially with failing pipeline commands (SpecFault) and by          *)
(* concurrent clients (Spec).                                              *)
(***************************************************************************)
EXTENDS Integers, Sequences, FiniteSets, TLC

VARIABLES
    mem,        \* MemoryStorage: [frames, sessions]
    redis,      \* Redis server behind RedisStorage: [lists, sets]
    last,       \* sequential driver: the call made last
    mres,       \* sequential driver: what the memory backend returned
    rres,       \* sequential driver: what the Redis backend returned
    pre,        \* sequential driver: the Redis server before the last call
    hist,       \* per session, the frames put since its last successful delete
    ndel,       \* number of successful DeleteSession calls
    nops,       \* number of calls made by the sequential driver
    backend,    \* concurrent clients: the backend they share
    pc,         \* concurrent clients: position of each client in its call
    arg,        \* concurrent clients: arguments of the call in progress
    ret,        \* concurrent clients: result of the last finished call
    calls,      \* concurrent clients: number of calls each has finished
    acked,      \* frames whose PutFrame has returned nil
    invoked,    \* frames some PutFrame has been called with
    delInvoked, \* sessions some DeleteSession has been called for
    deletedNow, \* sessions deleted with no PutFrame returned since
    rctx,       \* reader: frames acked when its call began, session undeleted at return
    sessions,   \* SessionManager.sessions: id -> SessionInfo
    now,        \* the wall clock, in ticks
    reaper,     \* the cleanup worker: "none", "running" or "stopped"
    maxAge,     \* the maxAge the cleanup worker was started with
    rcancel,    \* the cleanup worker's context is cancelled
    tick,       \* the cleanup worker's ticker channel holds a tick
    nextFire,   \* the time at which the ticker fires next
    created,    \* the ids CreateSession has returned, in order
    removed,    \* number of entries removed by CleanupSession or by the worker
    sweeps,     \* number of sweeps the worker has run
    regops,     \* number of CreateSession and CleanupSession calls made
    nadv,       \* number of times the clock has advanced
    plugins,    \* Registry.plugins: kind -> name -> factory
    status,     \* PluginManager.status: name -> PluginStatus
    pcall,      \* the registry or manager call made last
    pres,       \* what that call returned
    reglog,     \* every Register call made, in order
    started,    \* the names for which a StartPlugin has returned nil
    pnops,      \* number of registry and manager calls made
    locks,      \* the RWMutex of each component: writer, waiting writers, readers
    tprog,      \* per thread, the steps left of the call it is in
    underLock,  \* the calls into caller-supplied code made under a lock
    lcalls,     \* number of calls the threads have begun
    ctxDone,    \* the cancellation token the runners share has fired
    rticks,     \* the runners whose ticker channel holds a tick
    cam,        \* CameraPlugin.Run: position, result, deviceID, frameIndex
    ngen,       \* number of generated frames a client has stored
    wm,         \* WatermarkPlugin.Run: position, result, sessions and frames left
    eg,         \* WebRTCEgressPlugin.Run: position, result, cursor, samples written
    lateOps,    \* store operations runners began after the token fired
    camPuts,    \* every PutFrame call of the camera instance, in order
    camRuns,    \* number of Run calls made on the camera instance
    flaky,      \* the store the runners use can fail a call
    failed,     \* the store calls of the runners that returned an error
    stale,      \* the frames a write-back replaced that were not the frame listed
    opctx,      \* the context the last store call was made with
    heap,       \* the objects the managers allocated, by address
    held,       \* the pointers callers were handed, with what each showed then
    cleanup     \* the CleanupSession call made last and what it returned

storeVars == <<mem, redis>>
seqVars == <<last, mres, rres, pre, hist, ndel, nops>>
procVars == <<backend, pc, arg, ret, calls, acked, invoked, delInvoked, deletedNow, rctx>>
regVars == <<sessions, now, reaper, maxAge, rcancel, tick, nextFire,
             created, removed, sweeps, regops, nadv, cleanup>>
frameVars == <<storeVars, seqVars, procVars>>
plugVars == <<plugins, status, pcall, pres, reglog, started, pnops>>
lockVars == <<locks, tprog, underLock, lcalls>>
runVars == <<ctxDone, rticks, cam, ngen, wm, eg, lateOps, camPuts, camRuns, flaky, failed, stale>>
ctxVars == <<opctx, heap, held>>
ctlTail == <<plugVars, lockVars, runVars, ctxVars>>
ctlVars == <<regVars, plugVars, lockVars, runVars, ctxVars>>
notRegVars == <<frameVars, plugVars, lockVars, runVars, ctxVars>>
notPlugVars == <<frameVars, regVars, lockVars, runVars, ctxVars>>
notLockVars == <<frameVars, regVars, plugVars, runVars, ctxVars>>
offRunVars == <<redis, seqVars, procVars, regVars, plugVars, lockVars, ctxVars>>
notPollVars == <<offRunVars, camPuts, camRuns, flaky>>
notRunVars == <<notPollVars, failed, stale>>
vars == <<mem, redis, last, mres, rres, pre, hist, ndel, nops,
          backend, pc, arg, ret, calls, acked, invoked, delInvoked, deletedNow, rctx,
          sessions, now, reaper, maxAge, rcancel, tick, nextFire,
          created, removed, sweeps, regops, nadv, cleanup, ctlTail>>

-----------------------------------------------------------------------------
(* Bounds and input sets *)

MaxOps == 5
MaxCalls == 4

\* Session IDs are byte strings: "\x01\x02" and "\x02" (shorter sorts later).
SessionIDs == {<<1, 2>>, <<2>>}
Indices == {0, 1}
DataVals == {1, 2}

-----------------------------------------------------------------------------
(* Frames and their JSON encoding *)

Frame(s, i, d) == [SessionID |-> s, Index |-> i, Data |-> d]

Frames == {Frame(s, i, d) : s \in SessionIDs, i \in Indices, d \in DataVals}

\* Frame{}: the zero value returned next to an error
ZeroFrame == [SessionID |-> <<>>, Index |-> 0, Data |-> 0]

Nil == "nil"
ErrSessionNotFound == "session not found"
ErrFrameNotFound == "frame not found"
ErrStoreFrame == "failed to store frame"
ErrDeleteSession == "failed to delete session"

\* encoding/json writes a []byte as a base64 string
Base64Encode(d) == <<"base64", d>>
Base64Decode(t) == t[2]

\* json.Marshal(frame)
Marshal(f) ==
    [json |-> [SessionID |-> f.SessionID, Index |-> f.Index,
               Data |-> Base64Encode(f.Data)]]

\* json.Unmarshal([]byte(frameJSON), &frame)
Unmarshal(j) ==
    [SessionID |-> j.json.SessionID, Index |-> j.json.Index,
     Data |-> Base64Decode(j.json.Data)]

-----------------------------------------------------------------------------
(* Sorting *)

Range(q) == {q[k] : k \in DOMAIN q}

RemoveAt(q, k) == [j \in 1..(Len(q) - 1) |-> IF j < k THEN q[j] ELSE q[j + 1]]

\* sort.Slice(frames, func(i, j) { frames[i].Index < frames[j].Index }):
\* not stable, so every arrangement of q in non-decreasing Index order.
RECURSIVE SortSlice(_)
SortSlice(q) ==
    IF q = <<>> THEN {<<>>}
    ELSE LET mins == {k \in DOMAIN q : \A j \in DOMAIN q : q[k].Index <= q[j].Index}
         IN UNION {{<<q[k]>> \o r : r \in SortSlice(RemoveAt(q, k))} : k \in mins}

\* Go's string comparison: bytewise lexicographic
RECURSIVE StrLess(_, _)
StrLess(a, b) ==
    IF a = <<>> THEN b # <<>>
    ELSE IF b = <<>> THEN FALSE
    ELSE IF Head(a) # Head(b) THEN Head(a) < Head(b)
    ELSE StrLess(Tail(a), Tail(b))

\* sort.Strings(sessions), applied to the members collected from a map or set
RECURSIVE SortStrings(_)
SortStrings(S) ==
    IF S = {} THEN <<>>
    ELSE LET m == CHOOSE x \in S : \A y \in S \ {x} : StrLess(x, y)
         IN <<m>> \o SortStrings(S \ {m})

\* the values of a map in the order a range loop happens to visit them
RECURSIVE MapValues(_)
MapValues(fn) ==
    IF DOMAIN fn = {} THEN <<>>
    ELSE LET k == CHOOSE x \in DOMAIN fn : TRUE
         IN <<fn[k]>> \o MapValues([j \in DOMAIN fn \ {k} |-> fn[j]])

-----------------------------------------------------------------------------
(* MemoryStorage *)

EmptyMap == [x \in {} |-> 0]

NewMemoryStorage == [frames |-> EmptyMap, sessions |-> {}]

\* PutFrame without the exists check: the session map is made anew each time
MemPutFrameReplace(m, f) ==
    [st |-> [frames |-> (f.SessionID :> (f.Index :> f)) @@ m.frames,
             sessions |-> m.sessions \cup {f.SessionID}],
     err |-> Nil]

\* a PutFrame that creates the session's map and leaves the session out of the set
MemPutFrameNoRegister(m, f) ==
    [st |-> [frames |-> IF f.SessionID \in DOMAIN m.frames
                        THEN [m.frames EXCEPT ![f.SessionID] = (f.Index :> f) @@ @]
                        ELSE (f.SessionID :> (f.Index :> f)) @@ m.frames,
             sessions |-> m.sessions],
     err |-> Nil]

MemPutFrame(m, f) ==
    LET s == f.SessionID
        c == IF s \in DOMAIN m.frames THEN m
             ELSE [frames |-> (s :> EmptyMap) @@ m.frames,
                   sessions |-> m.sessions \cup {s}]
    IN [st |-> [c EXCEPT !.frames[s] = (f.Index :> f) @@ @], err |-> Nil]

\* GetFrame reading the inner map without the exists check: the zero Frame, no error
MemGetFrameNoCheck(m, s, i) ==
    IF s \notin DOMAIN m.frames THEN [err |-> ErrSessionNotFound, frame |-> ZeroFrame]
    ELSE IF i \notin DOMAIN m.frames[s] THEN [err |-> Nil, frame |-> ZeroFrame]
    ELSE [err |-> Nil, frame |-> m.frames[s][i]]

MemGetFrame(m, s, i) ==
    IF s \notin DOMAIN m.frames THEN [err |-> ErrSessionNotFound, frame |-> ZeroFrame]
    ELSE IF i \notin DOMAIN m.frames[s] THEN [err |-> ErrFrameNotFound, frame |-> ZeroFrame]
    ELSE [err |-> Nil, frame |-> m.frames[s][i]]

MemListFrames(m, s) ==
    IF s \notin DOMAIN m.frames THEN {[err |-> ErrSessionNotFound, frames |-> <<>>]}
    ELSE {[err |-> Nil, frames |-> r] : r \in SortSlice(MapValues(m.frames[s]))}

\* ListSessions without the sort.Strings call: some other order of the keys
MemListSessionsUnsorted(m) ==
    LET q == SortStrings(m.sessions)
    IN [err |-> Nil, sessions |-> [k \in DOMAIN q |-> q[Len(q) + 1 - k]]]

MemListSessions(m) == [err |-> Nil, sessions |-> SortStrings(m.sessions)]

\* a DeleteSession that empties the store
MemDeleteSessionAll(m, s) ==
    IF s \notin DOMAIN m.frames THEN [st |-> m, err |-> ErrSessionNotFound]
    ELSE [st |-> NewMemoryStorage, err |-> Nil]

\* a DeleteSession that drops the frames and leaves the session in the set
MemDeleteSessionKeepMarker(m, s) ==
    IF s \notin DOMAIN m.frames THEN [st |-> m, err |-> ErrSessionNotFound]
    ELSE [st |-> [frames |-> [k \in DOMAIN m.frames \ {s} |-> m.frames[k]],
                  sessions |-> m.sessions],
          err |-> Nil]

MemDeleteSession(m, s) ==
    IF s \notin DOMAIN m.frames THEN [st |-> m, err |-> ErrSessionNotFound]
    ELSE [st |-> [frames |-> [k \in DOMAIN m.frames \ {s} |-> m.frames[k]],
                  sessions |-> m.sessions \ {s}],
          err |-> Nil]

-----------------------------------------------------------------------------
(* Redis server commands, as RedisStorage issues them *)

frameKey(s) == <<"frames:", s>>
sessionKey == "active_sessions"

NewRedis == [lists |-> EmptyMap, sets |-> EmptyMap]

LRange(db, key) == IF key \in DOMAIN db.lists THEN db.lists[key] ELSE <<>>
SMembers(db, key) == IF key \in DOMAIN db.sets THEN db.sets[key] ELSE {}
SIsMember(db, key, x) == x \in SMembers(db, key)

RPush(db, key, v) ==
    [db EXCEPT !.lists = (key :> Append(LRange(db, key), v)) @@ @]

SAdd(db, key, x) ==
    [db EXCEPT !.sets = (key :> (SMembers(db, key) \cup {x})) @@ @]

Del(db, key) ==
    [db EXCEPT !.lists = [k \in DOMAIN @ \ {key} |-> @[k]]]

\* a set that becomes empty is removed from the keyspace
SRem(db, key, x) ==
    LET left == SMembers(db, key) \ {x}
    IN IF left = {} THEN [db EXCEPT !.sets = [k \in DOMAIN @ \ {key} |-> @[k]]]
       ELSE [db EXCEPT !.sets = (key :> left) @@ @]

-----------------------------------------------------------------------------
(* RedisStorage, one call at a time.  fl = <<b1, b2>>: command k of the     *)
(* pipeline fails (is not applied and reports an error) when fl[k].        *)

NoFault == <<FALSE, FALSE>>
Faults == {<<a, b>> : a \in BOOLEAN, b \in BOOLEAN}

Decode(q) == [k \in DOMAIN q |-> Unmarshal(q[k])]

RedisPutFrame(db, f, fl) ==
    LET frameJSON == Marshal(f)
        d1 == IF fl[1] THEN db ELSE RPush(db, frameKey(f.SessionID), frameJSON)
        d2 == IF fl[2] THEN d1 ELSE SAdd(d1, sessionKey, f.SessionID)
    IN [st |-> d2, err |-> IF fl[1] \/ fl[2] THEN ErrStoreFrame ELSE Nil]

\* the scan over LRANGE of GetFrame: the first entry with the index
RedisFindFrame(frameList, i) ==
    LET hits == {k \in DOMAIN frameList : Unmarshal(frameList[k]).Index = i}
    IN IF hits = {} THEN [err |-> ErrFrameNotFound, frame |-> ZeroFrame]
       ELSE [err |-> Nil,
             frame |-> Unmarshal(frameList[CHOOSE k \in hits : \A j \in hits : k <= j])]

RedisGetFrame(db, s, i) ==
    IF ~SIsMember(db, sessionKey, s) THEN [err |-> ErrSessionNotFound, frame |-> ZeroFrame]
    ELSE RedisFindFrame(LRange(db, frameKey(s)), i)

\* ListFrames without the sort.Slice call: the frames in list order
RedisSortFramesUnsorted(frameList) == {[err |-> Nil, frames |-> Decode(frameList)]}

\* the decoding loop stopping one entry early
RedisSortFramesDropLast(frameList) ==
    {[err |-> Nil, frames |-> r] :
        r \in SortSlice(Decode(SubSeq(frameList, 1, Len(frameList) - 1)))}

\* deserialize and sort what LRANGE returned
RedisSortFrames(frameList) ==
    {[err |-> Nil, frames |-> r] : r \in SortSlice(Decode(frameList))}

RedisListFrames(db, s) ==
    IF ~SIsMember(db, sessionKey, s) THEN {[err |-> ErrSessionNotFound, frames |-> <<>>]}
    ELSE RedisSortFrames(LRange(db, frameKey(s)))

RedisListSessions(db) == [err |-> Nil, sessions |-> SortStrings(SMembers(db, sessionKey))]

RedisDeleteSession(db, s, fl) ==
    IF ~SIsMember(db, sessionKey, s) THEN [st |-> db, err |-> ErrSessionNotFound]
    ELSE LET d1 == IF fl[1] THEN db ELSE Del(db, frameKey(s))
             d2 == IF fl[2] THEN d1 ELSE SRem(d1, sessionKey, s)
         IN [st |-> d2, err |-> IF fl[1] \/ fl[2] THEN ErrDeleteSession ELSE Nil]

-----------------------------------------------------------------------------
(* SessionManager: the registry of live sessions and its cleanup worker *)

TicksPerSecond == 2
SecondsPerMinute == 60
MaxRegOps == 3
MaxAdvances == 3

\* the ticker of the cleanup worker: time.NewTicker(time.Minute)
ReaperInterval == SecondsPerMinute * TicksPerSecond
Steps == {1, ReaperInterval}
MaxAges == {TicksPerSecond, ReaperInterval}
MaxTime == MaxAdvances * ReaperInterval
Times == 0..MaxTime

\* what a caller passes to CreateSession
SessionRequests ==
    {[Type |-> "webrtc", Metadata |-> [codec |-> "h264"]],
     [Type |-> "rtsp", Metadata |-> [codec |-> "vp8"]]}

\* time.Now().Format("20060102150405"): the time cut to whole seconds
FormatSeconds(t) == t \div TicksPerSecond

generateSessionID(t) == <<"session_", FormatSeconds(t)>>

RegistryIDs == {generateSessionID(t) : t \in Times}

NewSessionManager == <<>>

\* the session CreateSession builds at time t
NewSessionInfo(t, req) ==
    [ID |-> generateSessionID(t), CreatedAt |-> t,
     Type |-> req.Type, Metadata |-> req.Metadata]

\* sm.sessions[session.ID] = session
CreateSession(sm, t, req) ==
    LET session == NewSessionInfo(t, req) IN
    [sm |-> [id \in DOMAIN sm \cup {session.ID} |->
                IF id = session.ID THEN session ELSE sm[id]],
     session |-> session]

GetSession(sm, id) ==
    IF id \in DOMAIN sm THEN [session |-> sm[id], ok |-> TRUE]
    ELSE [session |-> Nil, ok |-> FALSE]

\* a CleanupSession that reports an absent id
CleanupSessionNotFound(sm, id) ==
    IF id \notin DOMAIN sm THEN [sm |-> sm, err |-> ErrSessionNotFound]
    ELSE [sm |-> [k \in DOMAIN sm \ {id} |-> sm[k]], err |-> Nil]

CleanupSession(sm, id) ==
    IF id \notin DOMAIN sm THEN [sm |-> sm, err |-> Nil]
    ELSE [sm |-> [k \in DOMAIN sm \ {id} |-> sm[k]], err |-> Nil]

\* no CleanupSession call made yet
NoCleanup == [id |-> <<>>, found |-> FALSE, err |-> Nil]

\* a sweep that also drops the sessions whose age equals maxAge
cleanupExpiredSessionsInclusive(sm, t, age) ==
    [id \in {k \in DOMAIN sm : ~(t - sm[k].CreatedAt >= age)} |-> sm[id]]

\* delete every session with now.Sub(session.CreatedAt) > maxAge
cleanupExpiredSessions(sm, t, age) ==
    [id \in {k \in DOMAIN sm : ~(t - sm[k].CreatedAt > age)} |-> sm[id]]

\* the sessions GetActiveSessions returns (their order is the map's)
GetActiveSessions(sm) == {sm[id] : id \in DOMAIN sm}

InitRegVars ==
    /\ sessions = NewSessionManager
    /\ now = 0
    /\ reaper = "none"
    /\ maxAge = 0
    /\ rcancel = FALSE
    /\ tick = FALSE
    /\ nextFire = 0
    /\ created = <<>>
    /\ removed = 0
    /\ sweeps = 0
    /\ regops = 0
    /\ nadv = 0
    /\ cleanup = NoCleanup

-----------------------------------------------------------------------------
(* Registry and PluginManager *)

MaxPlugOps == 4

PluginTypes == {"ingress", "transform"}
PluginNames == {"camera", "watermark"}
PluginFactories == {"NewCameraPlugin", "NewWatermarkPlugin"}
\* a config whose watermark_image is a PNG, and one whose watermark_image is not
PluginConfigs == {"png", "notpng"}

ErrAlreadyRegistered(n) == "plugin already registered: " \o n
ErrPluginNotFound(k, n) == "plugin not found: " \o k \o "/" \o n
ErrCreatePlugin(e) == "failed to create plugin: " \o e
ErrInitializePlugin(e) == "failed to initialize plugin: " \o e
ErrPluginNotRunning(n) == "plugin not running: " \o n
ErrStatusNotFound(n) == "plugin not found: " \o n
ErrPngDecode == "png: invalid format"

NewRegistry == <<>>
NewPluginManager == <<>>

\* a Register that stores the factory without looking for an earlier one
RegisterOverwrite(reg, k, n, f) ==
    [reg |-> [t \in DOMAIN reg \cup {k} |->
                 [m \in (IF t \in DOMAIN reg THEN DOMAIN reg[t] ELSE {})
                        \cup (IF t = k THEN {n} ELSE {}) |->
                     IF t = k /\ m = n THEN f ELSE reg[t][m]]],
     err |-> Nil]

Register(reg, k, n, f) ==
    IF k \in DOMAIN reg /\ n \in DOMAIN reg[k]
    THEN [reg |-> reg, err |-> ErrAlreadyRegistered(n)]
    ELSE [reg |-> [t \in DOMAIN reg \cup {k} |->
                      [m \in (IF t \in DOMAIN reg THEN DOMAIN reg[t] ELSE {})
                             \cup (IF t = k THEN {n} ELSE {}) |->
                          IF t = k /\ m = n THEN f ELSE reg[t][m]]],
          err |-> Nil]

\* the plugin a factory returns
Instance(f) == [factory |-> f]

Create(reg, k, n) ==
    IF k \in DOMAIN reg /\ n \in DOMAIN reg[k]
    THEN [plugin |-> Instance(reg[k][n]), err |-> Nil]
    ELSE [plugin |-> Nil, err |-> ErrPluginNotFound(k, n)]

\* CameraPlugin.Initialize never fails; WatermarkPlugin.Initialize fails when
\* png.Decode does
Initialize(plugin, config) ==
    IF plugin.factory = "NewWatermarkPlugin" /\ config = "notpng"
    THEN ErrPngDecode ELSE Nil

RunningStatus(t) == [Running |-> TRUE, StartTime |-> t, Error |-> Nil]

\* a StartPlugin that records the status before it initializes the plugin
StartPluginRecordFirst(reg, st, k, n, config, t) ==
    LET c == Create(reg, k, n)
        rec == [m \in DOMAIN st \cup {n} |-> IF m = n THEN RunningStatus(t) ELSE st[m]] IN
    IF c.err # Nil THEN [st |-> st, err |-> ErrCreatePlugin(c.err)]
    ELSE IF Initialize(c.plugin, config) # Nil
         THEN [st |-> rec, err |-> ErrInitializePlugin(Initialize(c.plugin, config))]
         ELSE [st |-> rec, err |-> Nil]

StartPlugin(reg, st, k, n, config, t) ==
    LET c == Create(reg, k, n) IN
    IF c.err # Nil THEN [st |-> st, err |-> ErrCreatePlugin(c.err)]
    ELSE IF Initialize(c.plugin, config) # Nil
         THEN [st |-> st, err |-> ErrInitializePlugin(Initialize(c.plugin, config))]
         ELSE [st |-> [m \in DOMAIN st \cup {n} |->
                          IF m = n THEN RunningStatus(t) ELSE st[m]],
               err |-> Nil]

\* a StopPlugin that drops the entry of the plugin it stops
StopPluginDelete(st, n) ==
    IF n \notin DOMAIN st \/ ~st[n].Running
    THEN [st |-> st, err |-> ErrPluginNotRunning(n)]
    ELSE [st |-> [m \in DOMAIN st \ {n} |-> st[m]], err |-> Nil]

StopPlugin(st, n) ==
    IF n \notin DOMAIN st \/ ~st[n].Running
    THEN [st |-> st, err |-> ErrPluginNotRunning(n)]
    ELSE [st |-> [st EXCEPT ![n].Running = FALSE, ![n].Error = Nil], err |-> Nil]

GetPluginStatus(st, n) ==
    IF n \notin DOMAIN st
    THEN [status |-> Nil, err |-> ErrStatusNotFound(n)]
    ELSE [status |-> st[n], err |-> Nil]

PlugCall(op, k, n, f, config) ==
    [op |-> op, kind |-> k, name |-> n, factory |-> f, config |-> config]

InitPlugVars ==
    /\ plugins = NewRegistry
    /\ status = NewPluginManager
    /\ pcall = PlugCall("none", "", "", "", "")
    /\ pres = [err |-> Nil]
    /\ reglog = <<>>
    /\ started = {}
    /\ pnops = 0

-----------------------------------------------------------------------------
(* The sync.RWMutex of each component, and what each operation does with it *)

MaxLockCalls == 3

Threads == {"t1", "t2"}
Components == {"registry", "manager", "sessions", "store"}
NoThread == "none"

\* what the factory registered under the name a Create asks for does: there is
\* none, it builds a plugin, or it registers a further plugin before it does
FactoryKinds == {"unregistered", "plain", "registering"}

LockOps ==
    {"Register", "Create", "StartPlugin", "StopPlugin", "GetPluginStatus",
     "CreateSession", "GetSession", "cleanupExpiredSessions", "PutFrame", "GetFrame"}

\* mu.Lock() with no Unlock() before the method returns
ExclusiveNoUnlock(c) == <<<<"Lock", c>>>>
\* mu.Lock() ... mu.Unlock()
Exclusive(c) == <<<<"Lock", c>>, <<"Unlock", c>>>>
\* mu.RLock() ... mu.RUnlock()
Shared(c) == <<<<"RLock", c>>, <<"RUnlock", c>>>>
\* a call into code the caller supplied
Callout(what) == <<"call", what>>

RegisterSteps == Exclusive("registry")

FactorySteps(fk) ==
    IF fk = "plain" THEN <<Callout("factory")>>
    ELSE <<Callout("factory")>> \o RegisterSteps

\* the factory runs between r.mu.RLock() and the deferred r.mu.RUnlock()
CreateSteps(fk) ==
    IF fk = "unregistered" THEN Shared("registry")
    ELSE <<<<"RLock", "registry">>>> \o FactorySteps(fk) \o <<<<"RUnlock", "registry">>>>

StartPluginSteps(fk) ==
    IF fk = "unregistered" THEN CreateSteps(fk)
    ELSE CreateSteps(fk) \o <<Callout("Initialize")>> \o Exclusive("manager")

OperationSteps(op, fk) ==
    CASE op = "Register" -> RegisterSteps
      [] op = "Create" -> CreateSteps(fk)
      [] op = "StartPlugin" -> StartPluginSteps(fk)
      [] op = "StopPlugin" -> Exclusive("manager")
      [] op = "GetPluginStatus" -> Shared("manager")
      [] op = "CreateSession" -> Exclusive("sessions")
      [] op = "GetSession" -> Shared("sessions")
      [] op = "cleanupExpiredSessions" -> Exclusive("sessions")
      [] op = "PutFrame" -> Exclusive("store")
      [] op = "GetFrame" -> Shared("store")

NewRWMutex == [writer |-> NoThread, pending |-> {}, readers |-> {}]

InitLockVars ==
    /\ locks = [c \in Components |-> NewRWMutex]
    /\ tprog = [t \in Threads |-> <<>>]
    /\ underLock = {}
    /\ lcalls = 0

-----------------------------------------------------------------------------
(* The runners: camera ingress, watermark transform, WebRTC egress *)

MaxFrames == 2
MaxGenerated == 1
MaxPasses == 2

\* the session the egress reads, and the device id the camera is given
CurrentSession == <<1, 2>>
TestCamera == <<2>>

Runners == {"camera", "watermark", "egress"}
Tickers == {"camera", "egress"}

\* ctx.Err() of a cancelled context
ErrCanceled == "context canceled"
ErrWriteSample == "write sample failed"
ErrGetFrames == "failed to get frames"
ErrListSessions == "failed to list sessions"

\* frame data: whether image.Decode reads it, and how many watermarks it bears
FrameData(img, n) == [image |-> img, marks |-> n]
\* []byte("mock frame data")
MockFrameData == FrameData(FALSE, 0)
\* a frame of VideoGenerator.GenerateFrames
GeneratedData == FrameData(TRUE, 0)

VideoFrame(s, i, data) ==
    [SessionID |-> s, Index |-> i, Data |-> data, MediaType |-> "video"]

\* image.Decode, the two draw.Draw and png.Encode
Watermarked(data) == FrameData(TRUE, data.marks + 1)

\* the frame the watermark loop puts back
WatermarkFrame(f) == [f EXCEPT !.Data = Watermarked(f.Data)]

\* the camera plugin: NewCameraPlugin leaves deviceID at its zero value ""
\* time.Second, in nanoseconds
Second == 1000000000

\* a / b on int64 operands that do not overflow: the quotient truncated
\* toward zero; b = 0 panics and is excluded by the callers
GoQuo(a, b) ==
    IF (a >= 0) = (b > 0) THEN (IF a >= 0 THEN a ELSE -a) \div (IF b > 0 THEN b ELSE -b)
    ELSE -((IF a >= 0 THEN a ELSE -a) \div (IF b > 0 THEN b ELSE -b))

\* time.NewTicker(time.Second / time.Duration(p.fps)): the division panics
\* when fps is 0 and NewTicker panics when the interval is not positive
RunPanics(fps) == fps = 0 \/ GoQuo(Second, fps) <= 0

NewCameraPlugin == [pc |-> "new", err |-> Nil, deviceID |-> <<>>, frameIndex |-> 0, fps |-> 30]

\* the config maps the callers pass to Initialize, with and without device_id
FpsValues == {30, 0, -1, 2 * Second}
CameraConfigs ==
    {[fps |-> n] : n \in FpsValues} \cup {[device_id |-> TestCamera]}
        \cup {[fps |-> n, device_id |-> d] : n \in FpsValues, d \in {TestCamera, CurrentSession}}

\* CameraPlugin.Initialize: deviceID is set only when the config has
\* device_id, fps only when it has an int fps, whatever the int
CameraInitialize(p, config) ==
    [p EXCEPT !.pc = "initialized",
              !.deviceID = IF "device_id" \in DOMAIN config THEN config.device_id ELSE @,
              !.fps = IF "fps" \in DOMAIN config THEN config.fps ELSE @]

\* a camera whose every frame has index 0
CameraFrameNoIncrement(deviceID, frameIndex) == VideoFrame(deviceID, 0, MockFrameData)

\* the frame CameraPlugin.Run builds on a tick
CameraFrame(deviceID, frameIndex) == VideoFrame(deviceID, frameIndex, MockFrameData)

\* the indices stored for session s
IndexSet(m, s) == IF s \in DOMAIN m.frames THEN DOMAIN m.frames[s] ELSE {}

\* the frame stored under (s, i), if there is one
Stored(m, s, i) ==
    IF s \in DOMAIN m.frames /\ i \in DOMAIN m.frames[s] THEN {m.frames[s][i]} ELSE {}

\* the store behind the Storage interface: a call can fail when the backend
\* is one that can be unavailable, and a failed call leaves the store as it was
StoreFaults == IF flaky THEN BOOLEAN ELSE {FALSE}
\* a PutFrame that keeps the frame already stored under the index
StorePutFrameIfAbsent(m, f, fail) ==
    IF fail THEN [st |-> m, err |-> ErrStoreFrame]
    ELSE IF Stored(m, f.SessionID, f.Index) # {} THEN [st |-> m, err |-> Nil]
    ELSE MemPutFrame(m, f)

StorePutFrame(m, f, fail) ==
    IF fail THEN [st |-> m, err |-> ErrStoreFrame] ELSE MemPutFrame(m, f)
StoreListFrames(m, s, fail) ==
    IF fail THEN {[err |-> ErrGetFrames, frames |-> <<>>]} ELSE MemListFrames(m, s)
StoreListSessions(m, fail) ==
    IF fail THEN [err |-> ErrListSessions, sessions |-> <<>>] ELSE MemListSessions(m)

\* the store calls that have failed, with the call op of runner r when err is an error
Failed(r, op, err) == IF err # Nil THEN failed \cup {<<r, op>>} ELSE failed

\* a camera that goes on to its next tick when PutFrame has failed
CameraAfterPutContinue(p, err) == [p EXCEPT !.frameIndex = @ + 1]

\* CameraPlugin.Run after store.PutFrame: return err, or frameIndex++
CameraAfterPut(p, err) ==
    IF err # Nil THEN [p EXCEPT !.pc = "returned", !.err = err]
    ELSE [p EXCEPT !.frameIndex = @ + 1]

\* the frames the egress writes to its track, and its cursor after them
RECURSIVE NewFrames(_, _)
NewFrames(frames, lastFrameIndex) ==
    IF frames = <<>> THEN <<>>
    ELSE IF Head(frames).Index > lastFrameIndex
         THEN <<Head(frames)>> \o NewFrames(Tail(frames), Head(frames).Index)
         ELSE NewFrames(Tail(frames), lastFrameIndex)

\* a cursor that stays where it was
LastIndexStuck(frames, lastFrameIndex) == lastFrameIndex

LastIndex(frames, lastFrameIndex) ==
    IF NewFrames(frames, lastFrameIndex) = <<>> THEN lastFrameIndex
    ELSE NewFrames(frames, lastFrameIndex)[Len(NewFrames(frames, lastFrameIndex))].Index

InitRunVars ==
    /\ ctxDone = FALSE
    /\ rticks = {}
    /\ cam = [pc |-> "select", err |-> Nil, deviceID |-> TestCamera, frameIndex |-> 0, fps |-> 30]
    /\ ngen = 0
    /\ wm = [pc |-> "select", err |-> Nil, sessions |-> <<>>, frames |-> <<>>, passes |-> 0]
    /\ eg = [pc |-> "select", err |-> Nil, lastFrameIndex |-> -1, written |-> <<>>]
    /\ lateOps = {}
    /\ camPuts = <<>>
    /\ camRuns = 0
    /\ flaky = FALSE
    /\ failed = {}
    /\ stale = {}

-----------------------------------------------------------------------------
(* The context of a store call *)

\* context.Background() and a context whose cancel function has been called
\* (or whose deadline has passed) before the call
Background == "background"
Cancelled == "cancelled"
Contexts == {Background, Cancelled}

\* ctx.Err()
CtxErr(ctx) == IF ctx = Cancelled THEN ErrCanceled ELSE Nil

\* the error kinds a caller can tell a timed-out or cancelled call by
ErrBackendUnavailable == "backend unavailable"
CancellationErrors == {ErrCanceled, ErrBackendUnavailable}

\* the methods of MemoryStorage: each takes its context as `_ context.Context`
MemoryStoragePutFrame(ctx, m, f) == MemPutFrame(m, f)
MemoryStorageGetFrame(ctx, m, s, i) == MemGetFrame(m, s, i)
MemoryStorageListFrames(ctx, m, s) == MemListFrames(m, s)
MemoryStorageListSessions(ctx, m) == MemListSessions(m)
MemoryStorageDeleteSession(ctx, m, s) == MemDeleteSession(m, s)

InitCtx ==
    /\ opctx = Background
    /\ heap = <<>>
    /\ held = {}

InitCtl ==
    /\ InitCtx
    /\ InitRegVars
    /\ InitPlugVars
    /\ InitLockVars
    /\ InitRunVars

-----------------------------------------------------------------------------
(* Sequential driver: the same call on both backends *)

Call(op, s, i, d) == [op |-> op, SessionID |-> s, Index |-> i, Data |-> d]
NoCall == Call("none", <<>>, 0, 0)
NoResult == [err |-> Nil]

ProcIds == {"p1", "p2", "d", "r"}

InitStores ==
    /\ mem = NewMemoryStorage
    /\ redis = NewRedis

InitSeqVars ==
    /\ last = NoCall
    /\ mres = NoResult
    /\ rres = NoResult
    /\ pre = NewRedis
    /\ hist = [s \in SessionIDs |-> <<>>]
    /\ ndel = 0
    /\ nops = 0

InitProcVars ==
    /\ pc = [p \in ProcIds |-> "idle"]
    /\ arg = [p \in ProcIds |-> NoCall]
    /\ ret = [p \in ProcIds |-> NoResult]
    /\ calls = [p \in ProcIds |-> 0]
    /\ acked = {}
    /\ invoked = {}
    /\ delInvoked = {}
    /\ deletedNow = {}
    /\ rctx = [acked |-> {}, undeleted |-> TRUE]

InitSeq ==
    /\ InitStores
    /\ InitSeqVars
    /\ InitProcVars
    /\ InitCtl
    /\ backend = "both"

SeqPutFrame ==
    \E f \in Frames :
        /\ nops < MaxOps
        /\ mem' = MemPutFrame(mem, f).st
        /\ redis' = RedisPutFrame(redis, f, NoFault).st
        /\ mres' = [err |-> MemPutFrame(mem, f).err]
        /\ rres' = [err |-> RedisPutFrame(redis, f, NoFault).err]
        /\ last' = Call("PutFrame", f.SessionID, f.Index, f.Data)
        /\ pre' = redis
        /\ hist' = [hist EXCEPT ![f.SessionID] = Append(@, f)]
        /\ nops' = nops + 1
        /\ UNCHANGED <<ndel, procVars>>
        /\ UNCHANGED ctlVars

SeqGetFrame ==
    \E s \in SessionIDs, i \in Indices :
        /\ nops < MaxOps
        /\ mres' = MemGetFrame(mem, s, i)
        /\ rres' = RedisGetFrame(redis, s, i)
        /\ last' = Call("GetFrame", s, i, 0)
        /\ pre' = redis
        /\ nops' = nops + 1
        /\ UNCHANGED <<mem, redis, hist, ndel, procVars>>
        /\ UNCHANGED ctlVars

SeqListFrames ==
    \E s \in SessionIDs :
        /\ nops < MaxOps
        /\ mres' \in MemListFrames(mem, s)
        /\ rres' \in RedisListFrames(redis, s)
        /\ last' = Call("ListFrames", s, 0, 0)
        /\ pre' = redis
        /\ nops' = nops + 1
        /\ UNCHANGED <<mem, redis, hist, ndel, procVars>>
        /\ UNCHANGED ctlVars

SeqListSessions ==
    /\ nops < MaxOps
    /\ mres' = MemListSessions(mem)
    /\ rres' = RedisListSessions(redis)
    /\ last' = Call("ListSessions", <<>>, 0, 0)
    /\ pre' = redis
    /\ nops' = nops + 1
    /\ UNCHANGED <<mem, redis, hist, ndel, procVars>>
    /\ UNCHANGED ctlVars

SeqDeleteSession ==
    \E s \in SessionIDs :
        /\ nops < MaxOps
        /\ mem' = MemDeleteSession(mem, s).st
        /\ redis' = RedisDeleteSession(redis, s, NoFault).st
        /\ mres' = [err |-> MemDeleteSession(mem, s).err]
        /\ rres' = [err |-> RedisDeleteSession(redis, s, NoFault).err]
        /\ last' = Call("DeleteSession", s, 0, 0)
        /\ pre' = redis
        /\ hist' = IF MemDeleteSession(mem, s).err = Nil /\ RedisDeleteSession(redis, s, NoFault).err = Nil
                   THEN [hist EXCEPT ![s] = <<>>] ELSE hist
        /\ ndel' = IF MemDeleteSession(mem, s).err = Nil /\ RedisDeleteSession(redis, s, NoFault).err = Nil
                   THEN ndel + 1 ELSE ndel
        /\ nops' = nops + 1
        /\ UNCHANGED procVars
        /\ UNCHANGED ctlVars

NextSeq ==
    \/ SeqPutFrame
    \/ SeqGetFrame
    \/ SeqListFrames
    \/ SeqListSessions
    \/ SeqDeleteSession

SpecSeq == InitSeq /\ [][NextSeq]_vars

-----------------------------------------------------------------------------
(* Sequential driver of the Redis backend whose pipeline commands may fail *)

InitFault ==
    /\ InitStores
    /\ InitSeqVars
    /\ InitProcVars
    /\ InitCtl
    /\ backend = "redis"

FaultPutFrame ==
    \E f \in Frames, fl \in Faults :
        /\ nops < MaxOps
        /\ redis' = RedisPutFrame(redis, f, fl).st
        /\ rres' = [err |-> RedisPutFrame(redis, f, fl).err]
        /\ last' = Call("PutFrame", f.SessionID, f.Index, f.Data)
        /\ pre' = redis
        /\ nops' = nops + 1
        /\ UNCHANGED <<mem, mres, hist, ndel, procVars>>
        /\ UNCHANGED ctlVars

FaultDeleteSession ==
    \E s \in SessionIDs, fl \in Faults :
        /\ nops < MaxOps
        /\ redis' = RedisDeleteSession(redis, s, fl).st
        /\ rres' = [err |-> RedisDeleteSession(redis, s, fl).err]
        /\ last' = Call("DeleteSession", s, 0, 0)
        /\ pre' = redis
        /\ nops' = nops + 1
        /\ UNCHANGED <<mem, mres, hist, ndel, procVars>>
        /\ UNCHANGED ctlVars

NextFault ==
    \/ FaultPutFrame
    \/ FaultDeleteSession

SpecFault == InitFault /\ [][NextFault]_vars

-----------------------------------------------------------------------------
(* Concurrent clients of one store: two producers, a deleter, a reader.     *)
(* A MemoryStorage call runs under mu and is one step; a RedisStorage call  *)
(* is one step per command it sends, and the commands of a pipeline are     *)
(* not a transaction: commands of other clients run between them.          *)

Producers == {"p1", "p2"}
Deleter == "d"
Reader == "r"

\* the payload a producer writes tells its frames from the other's
ProducerData(p) == IF p = "p1" THEN 1 ELSE 2

Init ==
    /\ InitStores
    /\ InitSeqVars
    /\ InitProcVars
    /\ InitCtl
    /\ backend \in {"memory", "redis"}

\* calls begun so far, by all clients together
RECURSIVE Begun(_)
Begun(P) ==
    IF P = {} THEN 0
    ELSE LET p == CHOOSE x \in P : TRUE
         IN calls[p] + (IF pc[p] = "idle" THEN 0 ELSE 1) + Begun(P \ {p})

CanCall(p) == pc[p] = "idle" /\ Begun(ProcIds) < MaxCalls

Return(p, r) ==
    /\ pc' = [pc EXCEPT ![p] = "idle"]
    /\ ret' = [ret EXCEPT ![p] = r]
    /\ calls' = [calls EXCEPT ![p] = @ + 1]

MemPut(p) ==
    \E s \in SessionIDs, i \in Indices :
        LET f == Frame(s, i, ProducerData(p)) IN
        /\ backend = "memory"
        /\ CanCall(p)
        /\ mem' = MemPutFrame(mem, f).st
        /\ Return(p, [err |-> MemPutFrame(mem, f).err])
        /\ UNCHANGED arg
        /\ invoked' = invoked \cup {f}
        /\ acked' = acked \cup {f}
        /\ deletedNow' = deletedNow \ {s}
        /\ UNCHANGED <<redis, seqVars, backend, delInvoked, rctx>>
        /\ UNCHANGED ctlVars

MemDelete ==
    \E s \in SessionIDs :
        /\ backend = "memory"
        /\ CanCall(Deleter)
        /\ mem' = MemDeleteSession(mem, s).st
        /\ Return(Deleter, [err |-> MemDeleteSession(mem, s).err])
        /\ UNCHANGED arg
        /\ delInvoked' = delInvoked \cup {s}
        /\ deletedNow' = IF MemDeleteSession(mem, s).err = Nil
                         THEN deletedNow \cup {s} ELSE deletedNow
        /\ UNCHANGED <<redis, seqVars, backend, acked, invoked, rctx>>
        /\ UNCHANGED ctlVars

MemList ==
    \E s \in SessionIDs : \E r \in MemListFrames(mem, s) :
        /\ backend = "memory"
        /\ CanCall(Reader)
        /\ Return(Reader, r)
        /\ arg' = [arg EXCEPT ![Reader] = Call("ListFrames", s, 0, 0)]
        /\ rctx' = [acked |-> acked, undeleted |-> s \notin delInvoked]
        /\ UNCHANGED <<mem, redis, seqVars, backend, acked, invoked, delInvoked, deletedNow>>
        /\ UNCHANGED ctlVars

MemGet ==
    \E s \in SessionIDs, i \in Indices :
        /\ backend = "memory"
        /\ CanCall(Reader)
        /\ Return(Reader, MemGetFrame(mem, s, i))
        /\ arg' = [arg EXCEPT ![Reader] = Call("GetFrame", s, i, 0)]
        /\ rctx' = [acked |-> acked, undeleted |-> s \notin delInvoked]
        /\ UNCHANGED <<mem, redis, seqVars, backend, acked, invoked, delInvoked, deletedNow>>
        /\ UNCHANGED ctlVars

\* PutFrame, first command of the pipeline
RedisPutRPush(p) ==
    \E s \in SessionIDs, i \in Indices :
        LET f == Frame(s, i, ProducerData(p)) IN
        /\ backend = "redis"
        /\ CanCall(p)
        /\ redis' = RPush(redis, frameKey(s), Marshal(f))
        /\ pc' = [pc EXCEPT ![p] = "SAdd"]
        /\ arg' = [arg EXCEPT ![p] = Call("PutFrame", s, i, f.Data)]
        /\ invoked' = invoked \cup {f}
        /\ UNCHANGED <<mem, seqVars, backend, ret, calls, acked, delInvoked, deletedNow, rctx>>
        /\ UNCHANGED ctlVars

\* PutFrame, second command of the pipeline, and the return
RedisPutSAdd(p) ==
    /\ backend = "redis"
    /\ pc[p] = "SAdd"
    /\ redis' = SAdd(redis, sessionKey, arg[p].SessionID)
    /\ Return(p, [err |-> Nil])
    /\ arg' = [arg EXCEPT ![p] = NoCall]
    /\ acked' = acked \cup {Frame(arg[p].SessionID, arg[p].Index, arg[p].Data)}
    /\ deletedNow' = deletedNow \ {arg[p].SessionID}
    /\ UNCHANGED <<mem, seqVars, backend, invoked, delInvoked, rctx>>
    /\ UNCHANGED ctlVars

\* DeleteSession, the existence check
RedisDelSIsMember ==
    \E s \in SessionIDs :
        /\ backend = "redis"
        /\ CanCall(Deleter)
        /\ delInvoked' = delInvoked \cup {s}
        /\ IF SIsMember(redis, sessionKey, s)
           THEN /\ pc' = [pc EXCEPT ![Deleter] = "Del"]
                /\ arg' = [arg EXCEPT ![Deleter] = Call("DeleteSession", s, 0, 0)]
                /\ UNCHANGED <<ret, calls>>
           ELSE /\ Return(Deleter, [err |-> ErrSessionNotFound])
                /\ UNCHANGED arg
        /\ UNCHANGED <<mem, redis, seqVars, backend, acked, invoked, deletedNow, rctx>>
        /\ UNCHANGED ctlVars

\* DeleteSession, first command of the pipeline
RedisDelDel ==
    /\ backend = "redis"
    /\ pc[Deleter] = "Del"
    /\ redis' = Del(redis, frameKey(arg[Deleter].SessionID))
    /\ pc' = [pc EXCEPT ![Deleter] = "SRem"]
    /\ UNCHANGED <<mem, seqVars, backend, arg, ret, calls, acked, invoked, delInvoked, deletedNow, rctx>>
    /\ UNCHANGED ctlVars

\* DeleteSession, second command of the pipeline, and the return
RedisDelSRem ==
    /\ backend = "redis"
    /\ pc[Deleter] = "SRem"
    /\ redis' = SRem(redis, sessionKey, arg[Deleter].SessionID)
    /\ Return(Deleter, [err |-> Nil])
    /\ arg' = [arg EXCEPT ![Deleter] = NoCall]
    /\ deletedNow' = deletedNow \cup {arg[Deleter].SessionID}
    /\ UNCHANGED <<mem, seqVars, backend, acked, invoked, delInvoked, rctx>>
    /\ UNCHANGED ctlVars

\* ListFrames or GetFrame, the existence check
RedisReadSIsMember ==
    \E op \in {"ListFrames", "GetFrame"}, s \in SessionIDs, i \in Indices :
        /\ backend = "redis"
        /\ CanCall(Reader)
        /\ op = "ListFrames" => i = 0
        /\ arg' = [arg EXCEPT ![Reader] = Call(op, s, i, 0)]
        /\ IF SIsMember(redis, sessionKey, s)
           THEN /\ pc' = [pc EXCEPT ![Reader] = "LRange"]
                /\ rctx' = [rctx EXCEPT !.acked = acked]
                /\ UNCHANGED <<ret, calls>>
           ELSE /\ Return(Reader, IF op = "ListFrames"
                                  THEN [err |-> ErrSessionNotFound, frames |-> <<>>]
                                  ELSE [err |-> ErrSessionNotFound, frame |-> ZeroFrame])
                /\ rctx' = [acked |-> acked, undeleted |-> s \notin delInvoked]
        /\ UNCHANGED <<mem, redis, seqVars, backend, acked, invoked, delInvoked, deletedNow>>
        /\ UNCHANGED ctlVars

\* ListFrames, the LRANGE, the decoding and the sort
RedisListLRange ==
    \E r \in RedisSortFrames(LRange(redis, frameKey(arg[Reader].SessionID))) :
        /\ backend = "redis"
        /\ pc[Reader] = "LRange"
        /\ arg[Reader].op = "ListFrames"
        /\ Return(Reader, r)
        /\ rctx' = [rctx EXCEPT !.undeleted = arg[Reader].SessionID \notin delInvoked]
        /\ UNCHANGED <<mem, redis, seqVars, backend, arg, acked, invoked, delInvoked, deletedNow>>
        /\ UNCHANGED ctlVars

\* GetFrame, the LRANGE and the scan
RedisGetLRange ==
    /\ backend = "redis"
    /\ pc[Reader] = "LRange"
    /\ arg[Reader].op = "GetFrame"
    /\ Return(Reader, RedisFindFrame(LRange(redis, frameKey(arg[Reader].SessionID)),
                                     arg[Reader].Index))
    /\ rctx' = [rctx EXCEPT !.undeleted = arg[Reader].SessionID \notin delInvoked]
    /\ UNCHANGED <<mem, redis, seqVars, backend, arg, acked, invoked, delInvoked, deletedNow>>
    /\ UNCHANGED ctlVars

Next ==
    \/ \E p \in Producers : MemPut(p)
    \/ MemDelete
    \/ MemList
    \/ MemGet
    \/ \E p \in Producers : RedisPutRPush(p)
    \/ \E p \in Producers : RedisPutSAdd(p)
    \/ RedisDelSIsMember
    \/ RedisDelDel
    \/ RedisDelSRem
    \/ RedisReadSIsMember
    \/ RedisListLRange
    \/ RedisGetLRange

Spec == Init /\ [][Next]_vars

-----------------------------------------------------------------------------
(* What the sequential claims speak about *)

\* the frame the latest Put wrote to index i, given the Puts h since the delete
LatestPut(h, i) ==
    h[CHOOSE k \in DOMAIN h : h[k].Index = i /\ \A j \in DOMAIN h : h[j].Index = i => j <= k]

PutIndices(h) == {h[k].Index : k \in DOMAIN h}

\* one frame per index put, with the latest data, in ascending index order
RECURSIVE AscendingLatest(_, _)
AscendingLatest(h, I) ==
    IF I = {} THEN <<>>
    ELSE LET i == CHOOSE x \in I : \A y \in I : x <= y
         IN <<LatestPut(h, i)>> \o AscendingLatest(h, I \ {i})

ExpectedList(h) == [err |-> Nil, frames |-> AscendingLatest(h, PutIndices(h))]

ActiveSessions == {s \in SessionIDs : hist[s] # <<>>}

StrictlyAscendingStrings(q) ==
    \A j, k \in DOMAIN q : j < k => StrLess(q[j], q[k])

\* C1: after successful Puts to a session and no delete since, ListFrames
\* returns, on both backends, exactly one frame per index put, with the data
\* of the latest Put to it, in strictly ascending index order.
C1_ListFramesLatestPerIndex ==
    (last.op = "ListFrames" /\ hist[last.SessionID] # <<>>) =>
        /\ mres = ExpectedList(hist[last.SessionID])
        /\ rres = ExpectedList(hist[last.SessionID])

\* C2: after several Puts to one (session, index), GetFrame returns, on both
\* backends, the frame of the Put applied last, and no Put is rejected.
C2_GetFrameLastWriterWins ==
    /\ (last.op = "GetFrame" /\ last.Index \in PutIndices(hist[last.SessionID])) =>
        /\ mres = [err |-> Nil, frame |-> LatestPut(hist[last.SessionID], last.Index)]
        /\ rres = [err |-> Nil, frame |-> LatestPut(hist[last.SessionID], last.Index)]
    /\ last.op = "PutFrame" => (mres.err = Nil /\ rres.err = Nil)

\* C3: for every sequence of calls, the memory backend and the Redis backend
\* return the same result for each call.
C3_BackendsAgree == mres = rres

\* C8: ListSessions returns, in ascending lexicographic order and without
\* duplicates, exactly the sessions with a successful Put since their last
\* successful delete, on both backends.
C8_ListSessionsSortedExact ==
    last.op = "ListSessions" =>
        /\ mres.err = Nil
        /\ StrictlyAscendingStrings(mres.sessions)
        /\ Range(mres.sessions) = ActiveSessions
        /\ rres = mres

C8_Witness ==
    /\ last.op = "ListSessions"
    /\ Len(mres.sessions) = 2
    /\ ndel > 0

\* everything a client can observe of the two stores
Observations ==
    [memList |-> [s \in SessionIDs |-> MemListFrames(mem, s)],
     memGet |-> [s \in SessionIDs |-> [i \in Indices |-> MemGetFrame(mem, s, i)]],
     memSessions |-> MemListSessions(mem),
     redisList |-> [s \in SessionIDs |-> RedisListFrames(redis, s)],
     redisGet |-> [s \in SessionIDs |-> [i \in Indices |-> RedisGetFrame(redis, s, i)]],
     redisSessions |-> RedisListSessions(redis)]

\* C10: a PutFrame that repeats the PutFrame made just before it leaves
\* ListFrames, GetFrame and ListSessions as they were, on both backends.
C10_RepeatedPutIdempotent ==
    [][(last.op = "PutFrame" /\ last' = last) => (Observations' = Observations)]_vars

-----------------------------------------------------------------------------
(* What the claims about concurrent clients and failing commands speak about *)

Quiescent == \A p \in ProcIds : pc[p] = "idle"

\* what a call made now, alone, would return from the shared store
ListNow(s) ==
    IF backend = "memory" THEN MemListFrames(mem, s) ELSE RedisListFrames(redis, s)
GetNow(s, i) ==
    IF backend = "memory" THEN MemGetFrame(mem, s, i) ELSE RedisGetFrame(redis, s, i)
SessionsNow ==
    IF backend = "memory" THEN MemListSessions(mem) ELSE RedisListSessions(redis)
DeleteNow(s) ==
    IF backend = "memory" THEN MemDeleteSession(mem, s).err
    ELSE RedisDeleteSession(redis, s, NoFault).err
ListAfterPut(f) ==
    IF backend = "memory" THEN MemListFrames(MemPutFrame(mem, f).st, f.SessionID)
    ELSE RedisListFrames(RedisPutFrame(redis, f, NoFault).st, f.SessionID)

\* the two structures of a session
IsActive(s) ==
    IF backend = "memory" THEN s \in mem.sessions ELSE SIsMember(redis, sessionKey, s)
HasFrames(s) ==
    IF backend = "memory" THEN s \in DOMAIN mem.frames /\ DOMAIN mem.frames[s] # {}
    ELSE LRange(redis, frameKey(s)) # <<>>

ReaderListed ==
    /\ pc[Reader] = "idle"
    /\ calls[Reader] > 0
    /\ arg[Reader].op = "ListFrames"

\* C4: while a DeleteSession(s) is in progress next to other callers, s is
\* in the active-session set exactly when frames are stored under it, and no
\* ListFrames succeeds with an empty list.
C4_DeleteAllOrNothing ==
    /\ \A s \in SessionIDs :
        (pc[Deleter] # "idle" /\ arg[Deleter].SessionID = s) => (IsActive(s) <=> HasFrames(s))
    /\ (ReaderListed /\ ret[Reader].err = Nil) => ret[Reader].frames # <<>>

\* C5: a PutFrame or DeleteSession of the Redis backend that returns an error
\* leaves the frame lists and the active-session set as they were before it.
C5_FailedBatchChangesNothing ==
    (last.op \in {"PutFrame", "DeleteSession"} /\ rres.err # Nil) => redis = pre

DistinctPairs(S) ==
    \A f, g \in S : (f.SessionID = g.SessionID /\ f.Index = g.Index) => f = g

\* C6: once every PutFrame of the producers has returned, with pairwise
\* distinct (session, index) pairs and no delete, ListFrames of each session
\* succeeds and holds every frame put into it.
C6_NoLostWrite ==
    ((\A p \in Producers : pc[p] = "idle") /\ delInvoked = {} /\ DistinctPairs(invoked)) =>
        \A f \in acked : \A r \in ListNow(f.SessionID) :
            r.err = Nil /\ f \in Range(r.frames)

C6_Witness ==
    /\ backend = "redis"
    /\ \A p \in Producers : pc[p] = "idle"
    /\ delInvoked = {}
    /\ DistinctPairs(invoked)
    /\ Cardinality(acked) = 3
    /\ {f.Data : f \in acked} = DataVals
    /\ {f.SessionID : f \in acked} = SessionIDs

\* C7: once DeleteSession(s) has succeeded and no PutFrame to s has returned
\* since, GetFrame and ListFrames of s return NotFound, s is not in
\* ListSessions, another DeleteSession(s) returns NotFound, and a PutFrame to
\* s makes a session that holds the newly put frame only.
C7_DeletedSessionIsGone ==
    \A s \in deletedNow :
        Quiescent =>
            /\ \A i \in Indices : GetNow(s, i).err = ErrSessionNotFound
            /\ \A r \in ListNow(s) : r.err = ErrSessionNotFound
            /\ s \notin Range(SessionsNow.sessions)
            /\ DeleteNow(s) = ErrSessionNotFound
            /\ \A f \in Frames :
                f.SessionID = s => ListAfterPut(f) = {[err |-> Nil, frames |-> <<f>>]}

\* the frames of the listed session whose PutFrame had returned when the
\* reader's ListFrames began
AckedBefore == {f \in rctx.acked : f.SessionID = arg[Reader].SessionID}

-----------------------------------------------------------------------------
(* Lookups that miss *)

NotFoundErrors == {ErrSessionNotFound, ErrFrameNotFound}

\* the call made by this step asks for something that was never put, or was
\* deleted since (hist is the history before the call)
MissingCall ==
    /\ nops' = nops + 1
    /\ \/ /\ last'.op = "GetFrame"
          /\ last'.Index \notin PutIndices(hist[last'.SessionID])
       \/ /\ last'.op \in {"ListFrames", "DeleteSession"}
          /\ hist[last'.SessionID] = <<>>

\* C11: GetFrame for an unknown session or an index never put, and ListFrames
\* and DeleteSession for an unknown session, return a NotFound error on both
\* backends and leave the frames and the active-session set unchanged.
C11_MissReturnsNotFound ==
    [][MissingCall =>
        /\ mres'.err \in NotFoundErrors
        /\ rres'.err \in NotFoundErrors
        /\ mem' = mem
        /\ redis' = redis]_vars

C11_Witness ==
    /\ last.op = "GetFrame"
    /\ hist[last.SessionID] # <<>>
    /\ last.Index \notin PutIndices(hist[last.SessionID])
    /\ mres.err = ErrFrameNotFound
    /\ rres.err = ErrFrameNotFound
    /\ ndel > 0

-----------------------------------------------------------------------------
(* The session registry under its callers, the clock and the cleanup worker *)

InitReg ==
    /\ InitStores
    /\ InitSeqVars
    /\ InitProcVars
    /\ backend = "none"
    /\ InitCtl

RegCreateSession ==
    \E req \in SessionRequests :
        /\ regops < MaxRegOps
        /\ sessions' = CreateSession(sessions, now, req).sm
        /\ created' = Append(created, CreateSession(sessions, now, req).session.ID)
        /\ regops' = regops + 1
        /\ UNCHANGED <<now, reaper, maxAge, rcancel, tick, nextFire, removed, sweeps, nadv, cleanup>>
        /\ UNCHANGED notRegVars

RegCleanupSession ==
    \E id \in DOMAIN sessions \cup {generateSessionID(MaxTime)} :
        /\ regops < MaxRegOps
        /\ sessions' = CleanupSession(sessions, id).sm
        /\ cleanup' = [id |-> id, found |-> id \in DOMAIN sessions,
                       err |-> CleanupSession(sessions, id).err]
        /\ removed' = removed + (IF id \in DOMAIN sessions THEN 1 ELSE 0)
        /\ regops' = regops + 1
        /\ UNCHANGED <<now, reaper, maxAge, rcancel, tick, nextFire, created, sweeps, nadv>>
        /\ UNCHANGED notRegVars

\* the clock moves on; a running ticker whose time has come puts a tick in its
\* channel, which holds one tick at most
Advance ==
    \E d \in Steps :
        /\ nadv < MaxAdvances
        /\ now' = now + d
        /\ nadv' = nadv + 1
        /\ IF reaper = "running" /\ now + d >= nextFire
           THEN /\ tick' = TRUE
                /\ nextFire' = nextFire + ReaperInterval
           ELSE UNCHANGED <<tick, nextFire>>
        /\ UNCHANGED <<sessions, reaper, maxAge, rcancel, created, removed, sweeps, regops, cleanup>>
        /\ UNCHANGED notRegVars

StartCleanupWorker ==
    \E age \in MaxAges :
        /\ reaper = "none"
        /\ reaper' = "running"
        /\ maxAge' = age
        /\ nextFire' = now + ReaperInterval
        /\ UNCHANGED <<sessions, now, rcancel, tick, created, removed, sweeps, regops, nadv, cleanup>>
        /\ UNCHANGED notRegVars

\* the caller cancels the worker's context
CancelWorker ==
    /\ reaper = "running"
    /\ ~rcancel
    /\ rcancel' = TRUE
    /\ UNCHANGED <<sessions, now, reaper, maxAge, tick, nextFire, created, removed, sweeps, regops, nadv, cleanup>>
    /\ UNCHANGED notRegVars

\* select: case <-ticker.C, taken whenever the channel holds a tick, whether or
\* not ctx.Done() is ready as well
ReaperSweep ==
    /\ reaper = "running"
    /\ tick
    /\ tick' = FALSE
    /\ sessions' = cleanupExpiredSessions(sessions, now, maxAge)
    /\ removed' = removed + Cardinality(DOMAIN sessions)
                          - Cardinality(DOMAIN cleanupExpiredSessions(sessions, now, maxAge))
    /\ sweeps' = sweeps + 1
    /\ UNCHANGED <<now, reaper, maxAge, rcancel, nextFire, created, regops, nadv, cleanup>>
    /\ UNCHANGED notRegVars

\* a worker that goes round its loop again when ctx.Done() is ready
ReaperIgnoresCancel ==
    /\ reaper = "running"
    /\ rcancel
    /\ UNCHANGED vars

\* select: case <-ctx.Done(); the deferred ticker.Stop() runs
ReaperExit ==
    /\ reaper = "running"
    /\ rcancel
    /\ reaper' = "stopped"
    /\ UNCHANGED <<sessions, now, maxAge, rcancel, tick, nextFire, created, removed, sweeps, regops, nadv, cleanup>>
    /\ UNCHANGED notRegVars

NextReg ==
    \/ RegCreateSession
    \/ RegCleanupSession
    \/ Advance
    \/ StartCleanupWorker
    \/ CancelWorker
    \/ ReaperSweep
    \/ ReaperExit

SpecReg == InitReg /\ [][NextReg]_vars

\* the Go scheduler runs a goroutine that can take a step, and select picks
\* among ready cases at random, so neither case of the worker is passed over
\* for ever
SpecRegFair == SpecReg /\ WF_vars(ReaperSweep) /\ WF_vars(ReaperExit)

-----------------------------------------------------------------------------
(* Session identifiers, registry entries and the cleanup worker *)

\* C12: any two CreateSession calls return different ids, so that after N
\* calls with no removal in between GetActiveSessions holds N sessions.
C12_CreateSessionIdsDistinct ==
    removed = 0 =>
        /\ \A i, j \in 1..Len(created) : i # j => created[i] # created[j]
        /\ Cardinality(GetActiveSessions(sessions)) = Len(created)

\* C13: a registry entry is never updated in place: CreateSession adds one new
\* entry and leaves every existing entry as it is, and an entry changes only
\* by being removed.
C13_EntriesNeverUpdated ==
    [][/\ \A id \in DOMAIN sessions :
              id \in DOMAIN sessions' => sessions'[id] = sessions[id]
       /\ created' # created =>
              /\ DOMAIN sessions \subseteq DOMAIN sessions'
              /\ Cardinality(DOMAIN sessions') = Cardinality(DOMAIN sessions) + 1]_vars

Expired(id) == now - sessions[id].CreatedAt > maxAge
AnyExpired == \E id \in DOMAIN sessions : Expired(id)

\* C14: a sweep of the running cleanup worker removes every session whose age
\* exceeds maxAge and no session whose age is at most maxAge, and a session
\* whose age exceeds maxAge when the worker's tick is due is eventually absent.
C14_ReaperRemovesExactlyExpired ==
    /\ [][sweeps' # sweeps =>
            /\ DOMAIN sessions' = {id \in DOMAIN sessions : ~Expired(id)}
            /\ \A id \in DOMAIN sessions' : sessions'[id] = sessions[id]]_vars
    /\ (AnyExpired /\ reaper = "running" /\ tick /\ ~rcancel) ~> (~AnyExpired \/ rcancel)

\* a sweep has removed a session and kept one whose age is exactly maxAge
C14_Witness ==
    /\ sweeps > 0
    /\ removed > 0
    /\ regops = Len(created)
    /\ \E id \in DOMAIN sessions : now - sessions[id].CreatedAt = maxAge
    /\ ~tick
    /\ ~rcancel

\* C15 as stated: once the cancellation signal has fired the cleanup worker
\* removes no session.
C15_NoRemovalAfterCancel ==
    [][(rcancel /\ sweeps' # sweeps) => sessions' = sessions]_vars

\* C15: once the cancellation signal has fired the cleanup worker terminates,
\* and once it has terminated it runs no sweep and stays terminated.
C15_ReaperTerminates ==
    /\ rcancel ~> (reaper = "stopped")
    /\ [][reaper = "stopped" => (sweeps' = sweeps /\ reaper' = "stopped")]_vars

\* the worker ran a sweep that removed a session, was cancelled and has stopped
C15_Witness ==
    /\ reaper = "stopped"
    /\ sweeps > 0
    /\ removed > 0
    /\ regops = Len(created)
    /\ nadv < MaxAdvances

-----------------------------------------------------------------------------
(* The plugin registry and the plugin manager under a caller *)

InitPlug ==
    /\ InitStores
    /\ InitSeqVars
    /\ InitProcVars
    /\ backend = "none"
    /\ InitCtl

PlugRegister ==
    \E k \in PluginTypes, n \in PluginNames, f \in PluginFactories :
        /\ pnops < MaxPlugOps
        /\ plugins' = Register(plugins, k, n, f).reg
        /\ pres' = [err |-> Register(plugins, k, n, f).err]
        /\ pcall' = PlugCall("Register", k, n, f, "")
        /\ reglog' = Append(reglog, [kind |-> k, name |-> n, factory |-> f])
        /\ pnops' = pnops + 1
        /\ UNCHANGED <<status, started>>
        /\ UNCHANGED notPlugVars

PlugCreate ==
    \E k \in PluginTypes, n \in PluginNames :
        /\ pnops < MaxPlugOps
        /\ pres' = Create(plugins, k, n)
        /\ pcall' = PlugCall("Create", k, n, "", "")
        /\ pnops' = pnops + 1
        /\ UNCHANGED <<plugins, status, reglog, started>>
        /\ UNCHANGED notPlugVars

\* time.Now() is read as the number of calls made so far
PlugStartPlugin ==
    \E k \in PluginTypes, n \in PluginNames, config \in PluginConfigs :
        /\ pnops < MaxPlugOps
        /\ status' = StartPlugin(plugins, status, k, n, config, pnops).st
        /\ pres' = [err |-> StartPlugin(plugins, status, k, n, config, pnops).err]
        /\ pcall' = PlugCall("StartPlugin", k, n, "", config)
        /\ started' = IF StartPlugin(plugins, status, k, n, config, pnops).err = Nil
                      THEN started \cup {n} ELSE started
        /\ pnops' = pnops + 1
        /\ UNCHANGED <<plugins, reglog>>
        /\ UNCHANGED notPlugVars

PlugStopPlugin ==
    \E n \in PluginNames :
        /\ pnops < MaxPlugOps
        /\ status' = StopPlugin(status, n).st
        /\ pres' = [err |-> StopPlugin(status, n).err]
        /\ pcall' = PlugCall("StopPlugin", "", n, "", "")
        /\ pnops' = pnops + 1
        /\ UNCHANGED <<plugins, reglog, started>>
        /\ UNCHANGED notPlugVars

PlugGetPluginStatus ==
    \E n \in PluginNames :
        /\ pnops < MaxPlugOps
        /\ pres' = GetPluginStatus(status, n)
        /\ pcall' = PlugCall("GetPluginStatus", "", n, "", "")
        /\ pnops' = pnops + 1
        /\ UNCHANGED <<plugins, status, reglog, started>>
        /\ UNCHANGED notPlugVars

NextPlug ==
    \/ PlugRegister
    \/ PlugCreate
    \/ PlugStartPlugin
    \/ PlugStopPlugin
    \/ PlugGetPluginStatus

SpecPlug == InitPlug /\ [][NextPlug]_vars

-----------------------------------------------------------------------------
(* Registration, plugin start and the status ledger *)

\* the positions in reglog of the Register calls made for (k, n)
RegisteredAt(k, n) ==
    {i \in 1..Len(reglog) : reglog[i].kind = k /\ reglog[i].name = n}
WasRegistered(k, n) == RegisteredAt(k, n) # {}
FirstFactory(k, n) ==
    reglog[CHOOSE i \in RegisteredAt(k, n) : \A j \in RegisteredAt(k, n) : i <= j].factory

\* C16: registration is write-once per (kind, name): a second Register of the
\* pair returns AlreadyRegistered and the first factory stays; Create returns
\* an instance of that factory exactly when the pair was registered earlier
\* and NotFound otherwise, whatever is registered under another kind.
C16_RegisterWriteOnce ==
    /\ [](\A k \in PluginTypes, n \in PluginNames :
            WasRegistered(k, n) =>
                /\ k \in DOMAIN plugins
                /\ n \in DOMAIN plugins[k]
                /\ plugins[k][n] = FirstFactory(k, n))
    /\ [][pcall'.op = "Register" /\ pnops' # pnops =>
            pres'.err = IF WasRegistered(pcall'.kind, pcall'.name)
                        THEN ErrAlreadyRegistered(pcall'.name) ELSE Nil]_vars
    /\ [][pcall'.op = "Create" /\ pnops' # pnops =>
            IF WasRegistered(pcall'.kind, pcall'.name)
            THEN /\ pres'.err = Nil
                 /\ pres'.plugin = Instance(FirstFactory(pcall'.kind, pcall'.name))
            ELSE /\ pres'.err = ErrPluginNotFound(pcall'.kind, pcall'.name)
                 /\ pres'.plugin = Nil]_vars

\* a pair was registered twice with different factories, and Create of the
\* same name under another kind found nothing
C16_Witness ==
    /\ pcall.op = "Create"
    /\ pres.err = ErrPluginNotFound(pcall.kind, pcall.name)
    /\ \E k \in PluginTypes \ {pcall.kind} :
          \E i, j \in RegisteredAt(k, pcall.name) :
              i < j /\ reglog[i].factory # reglog[j].factory

\* the StartPlugin call made by this step finds its plugin and initializes it
StartSucceeds ==
    /\ WasRegistered(pcall'.kind, pcall'.name)
    /\ Initialize(Instance(FirstFactory(pcall'.kind, pcall'.name)), pcall'.config) = Nil

\* C17: StartPlugin records {running: true, startTime: now} for the name only
\* when Create and Initialize have both succeeded; when either fails it
\* returns the error and the status map is unchanged.
C17_StartRecordsOnlyOnSuccess ==
    [][pcall'.op = "StartPlugin" /\ pnops' # pnops =>
        IF StartSucceeds
        THEN /\ pres'.err = Nil
             /\ DOMAIN status' = DOMAIN status \cup {pcall'.name}
             /\ status'[pcall'.name] = [Running |-> TRUE, StartTime |-> pnops, Error |-> Nil]
             /\ \A m \in DOMAIN status \ {pcall'.name} : status'[m] = status[m]
        ELSE /\ pres'.err # Nil
             /\ status' = status]_vars

\* Initialize failed for a plugin whose name already has a stopped entry
C17_Witness ==
    /\ pcall.op = "StartPlugin"
    /\ pres.err = ErrInitializePlugin(ErrPngDecode)
    /\ pcall.name \in DOMAIN status
    /\ ~status[pcall.name].Running

\* C18: GetPluginStatus(name) returns NotFound exactly when no
\* StartPlugin(name) has succeeded; StopPlugin(name) succeeds exactly when the
\* entry exists with running = true, and then sets running to false, keeps the
\* entry and touches no other name; otherwise it returns NotRunning and
\* changes nothing.
C18_StatusLedger ==
    /\ [](DOMAIN status = started)
    /\ [][pcall'.op = "GetPluginStatus" /\ pnops' # pnops =>
            /\ (pres'.err = ErrStatusNotFound(pcall'.name)) <=> (pcall'.name \notin started)
            /\ pres'.err = Nil <=> (pcall'.name \in started)
            /\ status' = status]_vars
    /\ [][pcall'.op = "StopPlugin" /\ pnops' # pnops =>
            IF pcall'.name \in DOMAIN status /\ status[pcall'.name].Running
            THEN /\ pres'.err = Nil
                 /\ DOMAIN status' = DOMAIN status
                 /\ ~status'[pcall'.name].Running
                 /\ status'[pcall'.name].StartTime = status[pcall'.name].StartTime
                 /\ \A m \in DOMAIN status \ {pcall'.name} : status'[m] = status[m]
            ELSE /\ pres'.err = ErrPluginNotRunning(pcall'.name)
                 /\ status' = status]_vars

\* a second StopPlugin of a stopped plugin failed, and its entry is still there
C18_Witness ==
    /\ pcall.op = "StopPlugin"
    /\ pres.err = ErrPluginNotRunning(pcall.name)
    /\ pcall.name \in DOMAIN status
    /\ ~status[pcall.name].Running

-----------------------------------------------------------------------------
(* Threads calling into the four components *)

InitLock ==
    /\ InitStores
    /\ InitSeqVars
    /\ InitProcVars
    /\ backend = "none"
    /\ InitCtl

\* the locks thread t holds
Holding(t) == {c \in Components : locks[c].writer = t \/ t \in locks[c].readers}

NextStepIs(t, kind) == tprog[t] # <<>> /\ Head(tprog[t])[1] = kind

BeginOp(t) ==
    \E op \in LockOps, fk \in FactoryKinds :
        /\ tprog[t] = <<>>
        /\ lcalls < MaxLockCalls
        /\ tprog' = [tprog EXCEPT ![t] = OperationSteps(op, fk)]
        /\ lcalls' = lcalls + 1
        /\ UNCHANGED <<locks, underLock>>
        /\ UNCHANGED notLockVars

\* Lock() announces the writer, which keeps new readers out
LockCall(t) ==
    /\ NextStepIs(t, "Lock")
    /\ LET c == Head(tprog[t])[2] IN
        /\ locks' = [locks EXCEPT ![c].pending = @ \cup {t}]
        /\ tprog' = [tprog EXCEPT ![t] = <<<<"LockWait", c>>>> \o Tail(@)]
    /\ UNCHANGED <<underLock, lcalls>>
    /\ UNCHANGED notLockVars

\* Lock() returns once no reader and no writer holds the mutex
LockAcquire(t) ==
    /\ NextStepIs(t, "LockWait")
    /\ LET c == Head(tprog[t])[2] IN
        /\ locks[c].writer = NoThread
        /\ locks[c].readers = {}
        /\ locks' = [locks EXCEPT ![c].writer = t, ![c].pending = @ \ {t}]
    /\ tprog' = [tprog EXCEPT ![t] = Tail(@)]
    /\ UNCHANGED <<underLock, lcalls>>
    /\ UNCHANGED notLockVars

\* RLock() returns when no writer holds the mutex or waits for it
RLockAcquire(t) ==
    /\ NextStepIs(t, "RLock")
    /\ LET c == Head(tprog[t])[2] IN
        /\ locks[c].writer = NoThread
        /\ locks[c].pending = {}
        /\ locks' = [locks EXCEPT ![c].readers = @ \cup {t}]
    /\ tprog' = [tprog EXCEPT ![t] = Tail(@)]
    /\ UNCHANGED <<underLock, lcalls>>
    /\ UNCHANGED notLockVars

Unlock(t) ==
    /\ NextStepIs(t, "Unlock")
    /\ locks' = [locks EXCEPT ![Head(tprog[t])[2]].writer = NoThread]
    /\ tprog' = [tprog EXCEPT ![t] = Tail(@)]
    /\ UNCHANGED <<underLock, lcalls>>
    /\ UNCHANGED notLockVars

RUnlock(t) ==
    /\ NextStepIs(t, "RUnlock")
    /\ locks' = [locks EXCEPT ![Head(tprog[t])[2]].readers = @ \ {t}]
    /\ tprog' = [tprog EXCEPT ![t] = Tail(@)]
    /\ UNCHANGED <<underLock, lcalls>>
    /\ UNCHANGED notLockVars

\* the factory or Initialize runs, with whatever locks the thread holds
CallSupplied(t) ==
    /\ NextStepIs(t, "call")
    /\ underLock' = underLock \cup {<<Head(tprog[t])[2], c>> : c \in Holding(t)}
    /\ tprog' = [tprog EXCEPT ![t] = Tail(@)]
    /\ UNCHANGED <<locks, lcalls>>
    /\ UNCHANGED notLockVars

NextLock ==
    \E t \in Threads :
        \/ BeginOp(t)
        \/ LockCall(t)
        \/ LockAcquire(t)
        \/ RLockAcquire(t)
        \/ Unlock(t)
        \/ RUnlock(t)
        \/ CallSupplied(t)

SpecLock == InitLock /\ [][NextLock]_vars

\* thread t waits for a mutex it cannot get
Blocked(t) ==
    \/ /\ NextStepIs(t, "LockWait")
       /\ \/ locks[Head(tprog[t])[2]].writer # NoThread
          \/ locks[Head(tprog[t])[2]].readers # {}
    \/ /\ NextStepIs(t, "RLock")
       /\ \/ locks[Head(tprog[t])[2]].writer # NoThread
          \/ locks[Head(tprog[t])[2]].pending # {}

\* some thread waits, and every thread that is in a call waits
Deadlocked ==
    /\ \E t \in Threads : Blocked(t)
    /\ \A t \in Threads : tprog[t] # <<>> => Blocked(t)

\* C19: no component calls into code the caller supplied (a plugin factory,
\* a plugin's Initialize) while it holds its own lock, and no interleaving of
\* Registry, PluginManager, SessionManager and MemoryStorage operations
\* deadlocks.
C19_NoCallUnderLockNoDeadlock ==
    /\ underLock = {}
    /\ ~Deadlocked

-----------------------------------------------------------------------------
(* The three runners on one MemoryStorage, under one cancellation token *)

InitRun ==
    /\ InitStores
    /\ InitSeqVars
    /\ InitProcVars
    /\ backend = "memory"
    /\ InitCtx
    /\ InitRegVars
    /\ InitPlugVars
    /\ InitLockVars
    /\ ctxDone = FALSE
    /\ rticks = {}
    /\ cam \in {[pc |-> "select", err |-> Nil, deviceID |-> d, frameIndex |-> 0, fps |-> 30] :
                   d \in {TestCamera, CurrentSession}}
    /\ ngen = 0
    /\ wm = [pc |-> "select", err |-> Nil, sessions |-> <<>>, frames |-> <<>>, passes |-> 0]
    /\ eg = [pc |-> "select", err |-> Nil, lastFrameIndex |-> -1, written |-> <<>>]
    /\ lateOps = {}
    /\ camPuts = <<>>
    /\ camRuns = 1
    /\ flaky = FALSE
    /\ failed = {}
    /\ stale = {}

\* a store operation begun by runner r; it is late when the token has fired
Began(r, op) == IF ctxDone THEN lateOps \cup {<<r, op>>} ELSE lateOps

\* the caller cancels the context the runners share
Cancel ==
    /\ ~ctxDone
    /\ ctxDone' = TRUE
    /\ UNCHANGED <<mem, rticks, cam, ngen, wm, eg, lateOps>>
    /\ UNCHANGED notRunVars

\* a running ticker puts a tick in its channel
TickerFire(r) ==
    /\ r \notin rticks
    /\ (IF r = "camera" THEN cam.pc ELSE eg.pc) = "select"
    /\ rticks' = rticks \cup {r}
    /\ UNCHANGED <<mem, ctxDone, cam, ngen, wm, eg, lateOps>>
    /\ UNCHANGED notRunVars

\* a client stores a generated video frame
GeneratorPut ==
    \E s \in {TestCamera, CurrentSession} :
        /\ ngen < MaxGenerated
        /\ mem' = MemPutFrame(mem, VideoFrame(s, ngen, GeneratedData)).st
        /\ ngen' = ngen + 1
        /\ UNCHANGED <<ctxDone, rticks, cam, wm, eg, lateOps>>
        /\ UNCHANGED notRunVars

\* CameraPlugin.Run, case <-ctx.Done()
CameraReturn ==
    /\ cam.pc = "select"
    /\ ctxDone
    /\ cam' = [cam EXCEPT !.pc = "returned", !.err = ErrCanceled]
    /\ UNCHANGED <<mem, ctxDone, rticks, ngen, wm, eg, lateOps>>
    /\ UNCHANGED notRunVars

\* CameraPlugin.Run, case <-ticker.C
CameraTick ==
    LET frame == CameraFrame(cam.deviceID, cam.frameIndex) IN
    /\ cam.pc = "select"
    /\ "camera" \in rticks
    /\ cam.frameIndex < MaxFrames
    /\ rticks' = rticks \ {"camera"}
    /\ lateOps' = Began("camera", "PutFrame")
    /\ \E fail \in StoreFaults :
        /\ mem' = StorePutFrame(mem, frame, fail).st
        /\ camPuts' = Append(camPuts, [run |-> camRuns, frame |-> frame,
                                       err |-> StorePutFrame(mem, frame, fail).err])
        /\ cam' = CameraAfterPut(cam, StorePutFrame(mem, frame, fail).err)
        /\ failed' = Failed("camera", "PutFrame", StorePutFrame(mem, frame, fail).err)
    /\ UNCHANGED <<ctxDone, ngen, wm, eg, camRuns, flaky, stale>>
    /\ UNCHANGED offRunVars

\* WatermarkPlugin.Run, the select: ctx.Done() when it is ready, else the
\* default case, which begins a pass with ListSessions
WatermarkSelect ==
    /\ wm.pc = "select"
    /\ IF ctxDone
       THEN /\ wm' = [wm EXCEPT !.pc = "returned", !.err = ErrCanceled]
            /\ UNCHANGED <<lateOps, failed>>
       ELSE \E fail \in StoreFaults :
            /\ wm.passes < MaxPasses
            /\ lateOps' = Began("watermark", "ListSessions")
            /\ failed' = Failed("watermark", "ListSessions", StoreListSessions(mem, fail).err)
            /\ wm' = IF StoreListSessions(mem, fail).err # Nil THEN wm
                     ELSE [wm EXCEPT !.pc = "sessions",
                                     !.sessions = StoreListSessions(mem, fail).sessions,
                                     !.passes = @ + 1]
    /\ UNCHANGED <<mem, ctxDone, rticks, cam, ngen, eg, stale>>
    /\ UNCHANGED notPollVars

\* the outer range loop: ListFrames of the next session, or the pass is over
WatermarkListFrames ==
    /\ wm.pc = "sessions"
    /\ IF wm.sessions = <<>>
       THEN /\ wm' = [wm EXCEPT !.pc = "sleep"]
            /\ UNCHANGED <<lateOps, failed>>
       ELSE \E fail \in StoreFaults :
            \E r \in StoreListFrames(mem, Head(wm.sessions), fail) :
            /\ lateOps' = Began("watermark", "ListFrames")
            /\ failed' = Failed("watermark", "ListFrames", r.err)
            /\ wm' = IF r.err # Nil
                     THEN [wm EXCEPT !.sessions = Tail(@)]
                     ELSE [wm EXCEPT !.sessions = Tail(@), !.frames = r.frames,
                                     !.pc = "frames"]
    /\ UNCHANGED <<mem, ctxDone, rticks, cam, ngen, eg, stale>>
    /\ UNCHANGED notPollVars

\* the inner range loop: skip the frame, or watermark it and put it back
WatermarkFrameStep ==
    /\ wm.pc = "frames"
    /\ IF wm.frames = <<>>
       THEN /\ wm' = [wm EXCEPT !.pc = "sessions"]
            /\ UNCHANGED <<mem, lateOps, failed, stale>>
       ELSE LET frame == Head(wm.frames) IN
            /\ wm' = [wm EXCEPT !.frames = Tail(@)]
            /\ IF frame.MediaType # "video" \/ ~frame.Data.image
               THEN UNCHANGED <<mem, lateOps, failed, stale>>
               ELSE \E fail \in StoreFaults :
                    /\ mem' = StorePutFrame(mem, WatermarkFrame(frame), fail).st
                    /\ stale' = IF fail THEN stale
                                ELSE stale \cup (Stored(mem, frame.SessionID, frame.Index) \ {frame})
                    /\ lateOps' = Began("watermark", "PutFrame")
                    /\ failed' = Failed("watermark", "PutFrame",
                                        StorePutFrame(mem, WatermarkFrame(frame), fail).err)
    /\ UNCHANGED <<ctxDone, rticks, cam, ngen, eg>>
    /\ UNCHANGED notPollVars

\* time.Sleep(100 * time.Millisecond)
WatermarkSleep ==
    /\ wm.pc = "sleep"
    /\ wm' = [wm EXCEPT !.pc = "select"]
    /\ UNCHANGED <<mem, ctxDone, rticks, cam, ngen, eg, lateOps>>
    /\ UNCHANGED notRunVars

\* WebRTCEgressPlugin.Run, case <-ctx.Done()
EgressReturn ==
    /\ eg.pc = "select"
    /\ ctxDone
    /\ eg' = [eg EXCEPT !.pc = "returned", !.err = ErrCanceled]
    /\ UNCHANGED <<mem, ctxDone, rticks, cam, ngen, wm, lateOps>>
    /\ UNCHANGED notRunVars

\* WebRTCEgressPlugin.Run, case <-ticker.C: ListFrames, then WriteSample for
\* every frame beyond the cursor; a failed WriteSample ends the run
EgressTick ==
    /\ eg.pc = "select"
    /\ "egress" \in rticks
    /\ rticks' = rticks \ {"egress"}
    /\ lateOps' = Began("egress", "ListFrames")
    /\ \E fail \in StoreFaults :
       \E r \in StoreListFrames(mem, CurrentSession, fail), fails \in BOOLEAN :
        /\ failed' = Failed("egress", "ListFrames", r.err)
        /\ IF r.err # Nil THEN eg' = eg /\ ~fails
           ELSE IF fails /\ NewFrames(r.frames, eg.lastFrameIndex) # <<>>
                THEN eg' = [eg EXCEPT !.pc = "returned", !.err = ErrWriteSample]
                ELSE /\ ~fails
                     /\ eg' = [eg EXCEPT
                            !.written = @ \o NewFrames(r.frames, eg.lastFrameIndex),
                            !.lastFrameIndex = LastIndex(r.frames, @)]
    /\ UNCHANGED <<mem, ctxDone, cam, ngen, wm, stale>>
    /\ UNCHANGED notPollVars

NextRun ==
    \/ Cancel
    \/ \E r \in Tickers : TickerFire(r)
    \/ GeneratorPut
    \/ CameraReturn
    \/ CameraTick
    \/ WatermarkSelect
    \/ WatermarkListFrames
    \/ WatermarkFrameStep
    \/ WatermarkSleep
    \/ EgressReturn
    \/ EgressTick

SpecRun == InitRun /\ [][NextRun]_vars

\* every runner is a goroutine that runs when it can, and select passes over
\* no ready case for ever
SpecRunFair ==
    /\ SpecRun
    /\ WF_vars(CameraReturn)
    /\ WF_vars(EgressReturn)
    /\ WF_vars(WatermarkSelect)
    /\ WF_vars(WatermarkListFrames)
    /\ WF_vars(WatermarkFrameStep)
    /\ WF_vars(WatermarkSleep)

AllReturned == cam.pc = "returned" /\ wm.pc = "returned" /\ eg.pc = "returned"

\* C20: after the shared cancellation token fires, a runner starts no new
\* store operation and returns the cancellation error (the egress may return
\* the failure of a write to its track instead), and each Run eventually
\* returns.
C20_NoStoreOperationAfterCancel ==
    /\ [](lateOps = {})
    /\ [](ctxDone => /\ cam.pc = "returned" => cam.err = ErrCanceled
                     /\ wm.pc = "returned" => wm.err = ErrCanceled
                     /\ eg.pc = "returned" => eg.err \in {ErrCanceled, ErrWriteSample})
    /\ ctxDone ~> AllReturned

-----------------------------------------------------------------------------
(* The pipeline end to end *)

\* the watermark loop has taken frame f from the frames it listed
TransformHandles(f) ==
    /\ wm.pc = "frames"
    /\ wm.frames # <<>>
    /\ f = Head(wm.frames)
    /\ wm'.frames = Tail(wm.frames)

\* C21: once the transform runner has handled a frame an ingress wrote,
\* ListFrames of the session returns as many frames as before, with their
\* indices in ascending order, and the handled frame carries the marker: a
\* write-back never changes the number of frames in the session.
C21_TransformMarksInPlace ==
    [][\A f \in {wm.frames[k] : k \in 1..(IF wm.pc = "frames" THEN Len(wm.frames) ELSE 0)} :
         TransformHandles(f) =>
            \A r \in MemListFrames(mem', f.SessionID) :
                /\ r.err = Nil
                /\ Len(r.frames) = Cardinality(DOMAIN mem.frames[f.SessionID])
                /\ \A k \in 1..(Len(r.frames) - 1) : r.frames[k].Index < r.frames[k + 1].Index
                /\ \E k \in 1..Len(r.frames) :
                      /\ r.frames[k].Index = f.Index
                      /\ r.frames[k].Data.marks >= 1]_vars

-----------------------------------------------------------------------------
(* A caller of MemoryStorage whose context may be cancelled before the call *)

InitCtxCalls ==
    /\ InitStores
    /\ InitSeqVars
    /\ InitProcVars
    /\ backend = "memory"
    /\ InitCtl

CtxPutFrame ==
    \E ctx \in Contexts, f \in Frames :
        /\ nops < MaxOps
        /\ mem' = MemoryStoragePutFrame(ctx, mem, f).st
        /\ mres' = [err |-> MemoryStoragePutFrame(ctx, mem, f).err]
        /\ last' = Call("PutFrame", f.SessionID, f.Index, f.Data)
        /\ opctx' = ctx
        /\ UNCHANGED <<heap, held>>
        /\ nops' = nops + 1
        /\ UNCHANGED <<redis, rres, pre, hist, ndel, procVars>>
        /\ UNCHANGED <<regVars, plugVars, lockVars, runVars>>

CtxGetFrame ==
    \E ctx \in Contexts, s \in SessionIDs, i \in Indices :
        /\ nops < MaxOps
        /\ mres' = MemoryStorageGetFrame(ctx, mem, s, i)
        /\ last' = Call("GetFrame", s, i, 0)
        /\ opctx' = ctx
        /\ UNCHANGED <<heap, held>>
        /\ nops' = nops + 1
        /\ UNCHANGED <<mem, redis, rres, pre, hist, ndel, procVars>>
        /\ UNCHANGED <<regVars, plugVars, lockVars, runVars>>

CtxListFrames ==
    \E ctx \in Contexts, s \in SessionIDs :
        /\ nops < MaxOps
        /\ mres' \in MemoryStorageListFrames(ctx, mem, s)
        /\ last' = Call("ListFrames", s, 0, 0)
        /\ opctx' = ctx
        /\ UNCHANGED <<heap, held>>
        /\ nops' = nops + 1
        /\ UNCHANGED <<mem, redis, rres, pre, hist, ndel, procVars>>
        /\ UNCHANGED <<regVars, plugVars, lockVars, runVars>>

CtxListSessions ==
    \E ctx \in Contexts :
        /\ nops < MaxOps
        /\ mres' = MemoryStorageListSessions(ctx, mem)
        /\ last' = Call("ListSessions", <<>>, 0, 0)
        /\ opctx' = ctx
        /\ UNCHANGED <<heap, held>>
        /\ nops' = nops + 1
        /\ UNCHANGED <<mem, redis, rres, pre, hist, ndel, procVars>>
        /\ UNCHANGED <<regVars, plugVars, lockVars, runVars>>

CtxDeleteSession ==
    \E ctx \in Contexts, s \in SessionIDs :
        /\ nops < MaxOps
        /\ mem' = MemoryStorageDeleteSession(ctx, mem, s).st
        /\ mres' = [err |-> MemoryStorageDeleteSession(ctx, mem, s).err]
        /\ last' = Call("DeleteSession", s, 0, 0)
        /\ opctx' = ctx
        /\ UNCHANGED <<heap, held>>
        /\ nops' = nops + 1
        /\ UNCHANGED <<redis, rres, pre, hist, ndel, procVars>>
        /\ UNCHANGED <<regVars, plugVars, lockVars, runVars>>

NextCtx ==
    \/ CtxPutFrame
    \/ CtxGetFrame
    \/ CtxListFrames
    \/ CtxListSessions
    \/ CtxDeleteSession

SpecCtx == InitCtxCalls /\ [][NextCtx]_vars

\* C22: a store operation called with a context that is already cancelled or
\* expired returns a cancellation or BackendUnavailable error and does not
\* perform the operation: the store is as it was before the call.
C22_CancelledContextRefusesOperation ==
    [][(nops' = nops + 1 /\ opctx' = Cancelled) =>
          /\ mres'.err \in CancellationErrors
          /\ mem' = mem]_vars

-----------------------------------------------------------------------------
(* CleanupSession *)

\* a step of SpecReg that is a CleanupSession call
CleanupStep == regops' = regops + 1 /\ created' = created

\* C23: CleanupSession(id) always returns nil; afterwards id is not in the
\* registry, every other session is there as it was before, a call for an
\* absent id changes nothing, and a second call for the same id would change
\* nothing either.
C23_CleanupSessionIdempotent ==
    [][CleanupStep =>
          /\ cleanup'.err = Nil
          /\ cleanup'.id \notin DOMAIN sessions'
          /\ DOMAIN sessions' = DOMAIN sessions \ {cleanup'.id}
          /\ \A k \in DOMAIN sessions' : sessions'[k] = sessions[k]
          /\ (~cleanup'.found => sessions' = sessions)
          /\ CleanupSession(sessions', cleanup'.id).sm = sessions'
          /\ CleanupSession(sessions', cleanup'.id).err = Nil]_vars

\* a session has been created and removed by CleanupSession, and a second
\* CleanupSession for its id, now absent, has returned nil
C23_Witness ==
    /\ cleanup.id \in Range(created)
    /\ ~cleanup.found
    /\ cleanup.err = Nil
    /\ removed = 1
    /\ Len(created) = 1
    /\ regops = 3

-----------------------------------------------------------------------------
(* The life of one camera plugin instance *)

MaxRuns == 2

InitCam ==
    /\ InitStores
    /\ InitSeqVars
    /\ InitProcVars
    /\ backend = "memory"
    /\ InitCtx
    /\ InitRegVars
    /\ InitPlugVars
    /\ InitLockVars
    /\ ctxDone = FALSE
    /\ rticks = {}
    /\ cam = NewCameraPlugin
    /\ ngen = 0
    /\ wm = [pc |-> "returned", err |-> Nil, sessions |-> <<>>, frames |-> <<>>, passes |-> 0]
    /\ eg = [pc |-> "returned", err |-> Nil, lastFrameIndex |-> -1, written |-> <<>>]
    /\ lateOps = {}
    /\ camPuts = <<>>
    /\ camRuns = 0
    /\ flaky \in BOOLEAN
    /\ failed = {}
    /\ stale = {}

\* plugin.Initialize(ctx, config), before the first Run or between two Runs
CamInitialize ==
    \E config \in CameraConfigs :
        /\ cam.pc \in {"new", "returned"}
        /\ cam' = CameraInitialize(cam, config)
        /\ UNCHANGED <<mem, ctxDone, rticks, ngen, wm, eg, lateOps>>
        /\ UNCHANGED notRunVars

\* go plugin.Run(ctx, store): a new ticker, which panics when fps gives no
\* positive interval, and frameIndex := int64(0); the
\* context is the one of the last Run or a new one
CamRun ==
    \E done \in {ctxDone, FALSE} :
        /\ cam.pc = "initialized"
        /\ camRuns < MaxRuns
        /\ cam' = IF RunPanics(cam.fps) THEN [cam EXCEPT !.pc = "panicked"]
                   ELSE [cam EXCEPT !.pc = "select", !.err = Nil, !.frameIndex = 0]
        /\ camRuns' = camRuns + 1
        /\ ctxDone' = done
        /\ rticks' = rticks \ {"camera"}
        /\ UNCHANGED <<mem, ngen, wm, eg, lateOps, camPuts, flaky, failed, stale>>
        /\ UNCHANGED offRunVars

NextCam ==
    \/ CamInitialize
    \/ CamRun
    \/ Cancel
    \/ TickerFire("camera")
    \/ CameraReturn
    \/ CameraTick

SpecCam == InitCam /\ [][NextCam]_vars

\* the PutFrame calls the camera made in its n-th Run
RunPuts(n) ==
    LET InRun(c) == c.run = n IN SelectSeq(camPuts, InRun)

\* the camera is inside a Run, or has returned from it and was not
\* initialised again
InRun == camRuns >= 1 /\ cam.pc \in {"select", "returned"}

\* the indices of a list of frames, in the order of the list
IndicesOf(frames) == [k \in DOMAIN frames |-> frames[k].Index]

\* C24: a camera initialised with device_id d passes frames of session d only
\* to PutFrame, with the indices 0, 1, 2, ... in that order and without gaps;
\* run against a new store, after its k-th successful tick (k >= 1)
\* ListFrames(d) succeeds and returns exactly the indices 0..k-1, and no other
\* session exists.
C24_CameraWritesItsSessionInOrder ==
    /\ \A n \in 1..camRuns : \A k \in 1..Len(RunPuts(n)) : RunPuts(n)[k].frame.Index = k - 1
    /\ InRun => \A k \in 1..Len(RunPuts(camRuns)) :
                    RunPuts(camRuns)[k].frame.SessionID = cam.deviceID
    /\ (InRun /\ camRuns = 1 /\ cam.frameIndex >= 1) =>
          /\ DOMAIN mem.frames = {cam.deviceID}
          /\ \A r \in MemListFrames(mem, cam.deviceID) :
                /\ r.err = Nil
                /\ IndicesOf(r.frames) = [k \in 1..cam.frameIndex |-> k - 1]

\* a camera initialised with device_id "test_camera" has stored two frames
C24_Witness ==
    /\ InRun
    /\ camRuns = 1
    /\ cam.deviceID = TestCamera
    /\ cam.frameIndex = 2
    /\ \E r \in MemListFrames(mem, TestCamera) : r.err = Nil /\ Len(r.frames) = 2

\* C25: the indices a camera plugin instance passes to PutFrame for a session
\* never decrease over the life of the instance, a Run started again after a
\* cancelled one and a new Initialize included.
C25_CameraIndicesNeverDecrease ==
    \A i, j \in DOMAIN camPuts :
        (i < j /\ camPuts[i].frame.SessionID = camPuts[j].frame.SessionID) =>
            camPuts[i].frame.Index <= camPuts[j].frame.Index

\* C26: no frame is ever stored under the empty session ID, whatever the
\* config the camera was initialised with.
C26_NoEmptySessionID ==
    /\ <<>> \notin DOMAIN mem.frames
    /\ <<>> \notin mem.sessions

-----------------------------------------------------------------------------
(* Error kinds *)

\* util.ErrorType
ErrorTypes == {"validation", "storage", "plugin", "network"}

\* util.NewError: a *util.Error
NewError(errType, message, cause) ==
    [dyn |-> "*util.Error", Type |-> errType, Message |-> message, Cause |-> cause]

\* the error value behind a message of this model: every error of the store,
\* the registry and the manager is made by fmt.Errorf, and ctx.Err() by the
\* context package
Errorf(message) == [dyn |-> "*fmt.wrapError", Message |-> message]

\* util.IsErrorType: the type assertion err.(*Error), without unwrapping
IsErrorType(err, errType) == err.dyn = "*util.Error" /\ err.Type = errType

\* C27: every error the registry and the manager return, an error StartPlugin
\* has wrapped included, carries a kind that IsErrorType finds.
C27_EveryErrorHasKind ==
    pres.err # Nil => \E k \in ErrorTypes : IsErrorType(Errorf(pres.err), k)

-----------------------------------------------------------------------------
(* What Run returns *)

\* C28: a Run that returns because its context was cancelled or timed out
\* returns nil: a runner that has returned has no error, unless it returned
\* for a failed write before.
C28_RunReturnsNilOnCancel ==
    /\ cam.pc = "returned" => cam.err \in {Nil, ErrStoreFrame}
    /\ wm.pc = "returned" => wm.err = Nil
    /\ eg.pc = "returned" => eg.err \in {Nil, ErrWriteSample}

-----------------------------------------------------------------------------
(* Read cursors *)

\* C29: a transform or egress runner handles a frame only when its index is
\* beyond the runner's cursor: the egress writes samples in ascending index
\* order with its cursor at the last of them, and the transform handles no
\* stored frame twice within one Run, so no frame bears more than one marker.
C29_RunnersHandleEachFrameOnce ==
    /\ \A k \in 1..(Len(eg.written) - 1) : eg.written[k].Index < eg.written[k + 1].Index
    /\ eg.written # <<>> => eg.lastFrameIndex = eg.written[Len(eg.written)].Index
    /\ \A s \in DOMAIN mem.frames : \A i \in DOMAIN mem.frames[s] :
          mem.frames[s][i].Data.marks <= 1

-----------------------------------------------------------------------------
(* The runners on a store whose calls can fail *)

InitPoll ==
    /\ InitStores
    /\ InitSeqVars
    /\ InitProcVars
    /\ backend = "memory"
    /\ InitCtx
    /\ InitRegVars
    /\ InitPlugVars
    /\ InitLockVars
    /\ ctxDone = FALSE
    /\ rticks = {}
    /\ cam = [pc |-> "select", err |-> Nil, deviceID |-> TestCamera, frameIndex |-> 0, fps |-> 30]
    /\ ngen = 0
    /\ wm = [pc |-> "select", err |-> Nil, sessions |-> <<>>, frames |-> <<>>, passes |-> 0]
    /\ eg = [pc |-> "select", err |-> Nil, lastFrameIndex |-> -1, written |-> <<>>]
    /\ lateOps = {}
    /\ camPuts = <<>>
    /\ camRuns = 1
    /\ flaky = TRUE
    /\ failed = {}
    /\ stale = {}

NextPoll ==
    \/ \E r \in Tickers : TickerFire(r)
    \/ GeneratorPut
    \/ CameraTick
    \/ WatermarkSelect
    \/ WatermarkListFrames
    \/ WatermarkFrameStep
    \/ WatermarkSleep
    \/ EgressTick

SpecPoll == InitPoll /\ [][NextPoll]_vars

\* C30: a failed store call does not end a polling runner: with its context
\* live the watermark transform never returns, whatever ListSessions,
\* ListFrames or PutFrame call of its failed, and the egress returns for a
\* failed WriteSample only, never for a failed ListFrames; the camera, whose
\* PutFrame has failed, has returned that error from Run and that PutFrame
\* is the last it issued.
C30_FailedPollDoesNotStopRunner ==
    /\ wm.pc # "returned"
    /\ eg.pc = "returned" => eg.err = ErrWriteSample
    /\ \A k \in DOMAIN camPuts :
          camPuts[k].err # Nil =>
             /\ k = Len(camPuts)
             /\ cam.pc = "returned"
             /\ cam.err = camPuts[k].err
    /\ cam.pc = "returned" => <<"camera", "PutFrame">> \in failed

\* every kind of poll has failed once: the egress has written a sample and
\* the transform has put back a frame all the same, and the camera, whose
\* PutFrame failed, has returned
C30_Witness ==
    /\ {<<"egress", "ListFrames">>, <<"watermark", "ListSessions">>,
        <<"watermark", "ListFrames">>, <<"watermark", "PutFrame">>,
        <<"camera", "PutFrame">>} \subseteq failed
    /\ eg.pc = "select"
    /\ eg.written # <<>>
    /\ wm.pc # "returned"
    /\ \E s \in DOMAIN mem.frames : \E i \in DOMAIN mem.frames[s] :
          mem.frames[s][i].Data.marks >= 1
    /\ cam.pc = "returned"
    /\ cam.err = ErrStoreFrame

-----------------------------------------------------------------------------
(* The transform racing a producer and a DeleteSession *)

MaxDeletes == 1

InitRace ==
    /\ InitStores
    /\ InitSeqVars
    /\ InitProcVars
    /\ backend = "memory"
    /\ InitCtx
    /\ InitRegVars
    /\ InitPlugVars
    /\ InitLockVars
    /\ ctxDone = FALSE
    /\ rticks = {}
    /\ cam = [pc |-> "select", err |-> Nil, deviceID |-> TestCamera, frameIndex |-> 0, fps |-> 30]
    /\ ngen = 0
    /\ wm = [pc |-> "select", err |-> Nil, sessions |-> <<>>, frames |-> <<>>, passes |-> 0]
    /\ eg = [pc |-> "returned", err |-> Nil, lastFrameIndex |-> -1, written |-> <<>>]
    /\ lateOps = {}
    /\ camPuts = <<>>
    /\ camRuns = 1
    /\ flaky = FALSE
    /\ failed = {}
    /\ stale = {}

\* a client deletes a session that exists
ClientDeleteSession ==
    \E s \in {TestCamera, CurrentSession} :
        /\ ndel < MaxDeletes
        /\ MemDeleteSession(mem, s).err = Nil
        /\ mem' = MemDeleteSession(mem, s).st
        /\ ndel' = ndel + 1
        /\ UNCHANGED <<redis, last, mres, rres, pre, hist, nops, procVars>>
        /\ UNCHANGED <<regVars, plugVars, lockVars, ctxVars, runVars>>

NextRace ==
    \/ TickerFire("camera")
    \/ GeneratorPut
    \/ CameraTick
    \/ WatermarkSelect
    \/ WatermarkListFrames
    \/ WatermarkFrameStep
    \/ WatermarkSleep
    \/ ClientDeleteSession

SpecRace == InitRace /\ [][NextRace]_vars

\* the frame the watermark loop takes next from the frames it listed
Listed == IF wm.pc = "frames" /\ wm.frames # <<>> THEN {Head(wm.frames)} ELSE {}

\* the watermark loop writes back the frame derived from the listed frame f
WritesBack(f) == TransformHandles(f) /\ f.MediaType = "video" /\ f.Data.image

\* C31 as stated: the transform's write-back loses no concurrent update: it
\* replaces the frame stored under (session, index) only if that is still
\* the frame the transform listed.
C31_NoLostUpdate ==
    [][\A f \in Listed : WritesBack(f) =>
          \A g \in Stored(mem, f.SessionID, f.Index) : g = f]_vars

\* C31: the transform's write-back is an unconditional PutFrame, the last
\* writer wins: whatever is stored under (session, index) at that moment, a
\* newer frame of a producer included, is replaced by the frame derived from
\* the listed one, and no other index and no other session changes.
C31_WriteBackLastWriterWins ==
    [][\A f \in Listed : WritesBack(f) =>
          /\ Stored(mem', f.SessionID, f.Index) = {WatermarkFrame(f)}
          /\ \A s \in DOMAIN mem.frames \cup DOMAIN mem'.frames :
                \A i \in IndexSet(mem, s) \cup IndexSet(mem', s) :
                   <<s, i>> # <<f.SessionID, f.Index>> =>
                      Stored(mem', s, i) = Stored(mem, s, i)]_vars

\* the camera has overwritten frame 0 of its session after the transform
\* listed the generated frame, and the transform's write-back has replaced
\* the camera's frame
C31_Witness ==
    /\ CameraFrame(TestCamera, 0) \in stale
    /\ Stored(mem, TestCamera, 0) = {WatermarkFrame(VideoFrame(TestCamera, 0, GeneratedData))}

\* a step in which session s, absent from the store, comes to exist
Reappears(s) == s \notin DOMAIN mem.frames /\ s \in DOMAIN mem'.frames

\* C32 as stated: a transform runner that listed a session's frames before
\* the session was deleted does not re-create the session by writing a
\* frame back.
C32_TransformDoesNotRecreate ==
    [][\A f \in Listed : WritesBack(f) => ~Reappears(f.SessionID)]_vars

\* C32: a successful DeleteSession removes the session's frames and its
\* membership, and the session stays absent until a PutFrame names it: the
\* PutFrame of an ingress, or the write-back of a transform runner that
\* listed the session before the delete; the session then exists again, in
\* ListSessions and ListFrames, with that one frame only.
C32_DeletedUntilNextPutFrame ==
    [][/\ ndel' = ndel + 1 =>
             \E s \in DOMAIN mem.frames :
                /\ s \notin DOMAIN mem'.frames
                /\ s \notin mem'.sessions
                /\ \A r \in MemListFrames(mem', s) : r.err = ErrSessionNotFound
       /\ \A s \in DOMAIN mem'.frames :
             Reappears(s) =>
                /\ ngen' # ngen \/ camPuts' # camPuts \/ \E f \in Listed : WritesBack(f)
                /\ s \in Range(MemListSessions(mem').sessions)
                /\ \A r \in MemListFrames(mem', s) : r.err = Nil /\ Len(r.frames) = 1]_vars

\* the one generated frame went to "current_session", the session was
\* deleted after the transform had listed it, and the transform's write-back
\* has created it again with the watermarked frame alone
C32_Witness ==
    /\ ndel = 1
    /\ ngen = 1
    /\ wm.passes = 1
    /\ CurrentSession \in mem.sessions
    /\ Stored(mem, CurrentSession, 0) = {WatermarkFrame(VideoFrame(CurrentSession, 0, GeneratedData))}

-----------------------------------------------------------------------------
(* The egress runner polling a session whose frames arrive in any order *)

\* the highest index a producer puts
MaxPutIndex == 2
ProducerIndices == 0 .. MaxPutIndex

InitEgress ==
    /\ InitStores
    /\ InitSeqVars
    /\ InitProcVars
    /\ backend = "memory"
    /\ InitCtx
    /\ InitRegVars
    /\ InitPlugVars
    /\ InitLockVars
    /\ ctxDone = FALSE
    /\ rticks = {}
    /\ cam = [pc |-> "returned", err |-> Nil, deviceID |-> TestCamera, frameIndex |-> 0, fps |-> 30]
    /\ ngen = 0
    /\ wm = [pc |-> "select", err |-> Nil, sessions |-> <<>>, frames |-> <<>>, passes |-> 0]
    /\ eg = [pc |-> "select", err |-> Nil, lastFrameIndex |-> -1, written |-> <<>>]
    /\ lateOps = {}
    /\ camPuts = <<>>
    /\ camRuns = 1
    /\ flaky = FALSE
    /\ failed = {}
    /\ stale = {}

\* a producer stores a frame of the polled session under an index not yet used
ProducerPut ==
    \E i \in ProducerIndices :
        /\ Stored(mem, CurrentSession, i) = {}
        /\ mem' = MemPutFrame(mem, VideoFrame(CurrentSession, i, GeneratedData)).st
        /\ UNCHANGED <<ctxDone, rticks, cam, ngen, wm, eg, lateOps>>
        /\ UNCHANGED notRunVars

NextEgress ==
    \/ TickerFire("egress")
    \/ ProducerPut
    \/ EgressTick

SpecEgress == InitEgress /\ [][NextEgress]_vars

\* the ticker fires every interval and the runner's select takes a tick that
\* is in the channel
SpecEgressFair ==
    /\ SpecEgress
    /\ WF_vars(TickerFire("egress"))
    /\ WF_vars(EgressTick)

\* the samples written for index i
Emitted(i) == {k \in DOMAIN eg.written : eg.written[k].Index = i}
EmittedOnce ==
    \A i \in ProducerIndices : Cardinality(Emitted(i)) <= 1

-----------------------------------------------------------------------------
(* The representation of the memory store *)

\* C34: in every reachable state of the memory store the active-session set
\* is the key set of the frame map, no session's frame map is empty, and
\* every frame is stored under its own SessionID and Index.
C34_MemoryStoreWellFormed ==
    /\ mem.sessions = DOMAIN mem.frames
    /\ \A s \in DOMAIN mem.frames :
          /\ DOMAIN mem.frames[s] # {}
          /\ \A i \in DOMAIN mem.frames[s] :
                /\ mem.frames[s][i].SessionID = s
                /\ mem.frames[s][i].Index = i

\* a session of two frames is left after a DeleteSession has removed another
C34_Witness ==
    /\ last.op = "DeleteSession"
    /\ mres.err = Nil
    /\ Cardinality(mem.sessions) = 1
    /\ \E s \in DOMAIN mem.frames : Cardinality(DOMAIN mem.frames[s]) = 2

-----------------------------------------------------------------------------
(* What a store call leaves alone *)

\* what the readers show of session s in store m and database db
MemView(m, s) ==
    [frames |-> MemListFrames(m, s), listed |-> s \in Range(MemListSessions(m).sessions),
     stored |-> IF s \in DOMAIN m.frames THEN {m.frames[s]} ELSE {}]
RedisView(db, s) ==
    [frames |-> RedisListFrames(db, s), listed |-> s \in Range(RedisListSessions(db).sessions),
     stored |-> LRange(db, frameKey(s))]

\* C35: PutFrame(f) and DeleteSession(s) change only the session they name,
\* on both backends: the frames of every other session and its membership
\* in ListSessions stay as they were; GetFrame, ListFrames and ListSessions
\* change nothing.
C35_CallsChangeOnlyTheirSession ==
    [][/\ last'.op \in {"PutFrame", "DeleteSession"} =>
            \A s \in SessionIDs \ {last'.SessionID} :
                /\ MemView(mem', s) = MemView(mem, s)
                /\ RedisView(redis', s) = RedisView(redis, s)
       /\ last'.op \in {"GetFrame", "ListFrames", "ListSessions"} =>
            /\ mem' = mem
            /\ redis' = redis]_vars

\* a DeleteSession has succeeded on both backends next to a session of two frames
C35_Witness ==
    /\ last.op = "DeleteSession"
    /\ mres.err = Nil
    /\ rres.err = Nil
    /\ \E s \in SessionIDs \ {last.SessionID} :
          /\ s \in mem.sessions
          /\ Cardinality(DOMAIN mem.frames[s]) = 2
          /\ Len(LRange(redis, frameKey(s))) = 2

-----------------------------------------------------------------------------
(* ListFrames and the order of the Puts *)

\* the frames of the set S, one per index, in ascending index order
RECURSIVE AscendingFrames(_)
AscendingFrames(S) ==
    IF S = {} THEN <<>>
    ELSE LET f == CHOOSE x \in S : \A y \in S : x.Index <= y.Index
         IN <<f>> \o AscendingFrames(S \ {f})

DistinctIndices(h) == \A j, k \in DOMAIN h : h[j].Index = h[k].Index => j = k

\* C36: when the Puts to a session since its creation or last delete have
\* pairwise distinct indices, ListFrames on either backend returns the one
\* sequence fixed by the set of frames put, in ascending index order,
\* whatever the order of the Puts.
C36_ListFramesIgnoresPutOrder ==
    \A s \in SessionIDs :
        (hist[s] # <<>> /\ DistinctIndices(hist[s])) =>
            /\ MemListFrames(mem, s) = {[err |-> Nil, frames |-> AscendingFrames(Range(hist[s]))]}
            /\ RedisListFrames(redis, s) = {[err |-> Nil, frames |-> AscendingFrames(Range(hist[s]))]}

\* ListFrames has answered for a session whose index 1 was put before its index 0
C36_Witness ==
    /\ last.op = "ListFrames"
    /\ rres.err = Nil
    /\ mres = rres
    /\ Len(rres.frames) = 2
    /\ [k \in DOMAIN hist[last.SessionID] |-> hist[last.SessionID][k].Index] = <<1, 0>>

-----------------------------------------------------------------------------
(* The cleanup worker and the callers of the registry on sm.mu *)

MaxSweeps == 2

\* the goroutine StartCleanupWorker starts
Worker == "worker"
RegistryThreads == Threads \cup {Worker}

\* the lock steps of the SessionManager's methods
SessionManagerSteps(op) ==
    CASE op = "CreateSession" -> Exclusive("sessions")
      [] op = "GetSession" -> Shared("sessions")
      [] op = "GetActiveSessions" -> Shared("sessions")
      [] op = "CleanupSession" -> Exclusive("sessions")
      [] op = "cleanupExpiredSessions" -> Exclusive("sessions")

InitWorker ==
    /\ InitStores
    /\ InitSeqVars
    /\ InitProcVars
    /\ backend = "none"
    /\ InitCtx
    /\ InitPlugVars
    /\ InitRunVars
    /\ sessions = NewSessionManager
    /\ now = 0
    /\ reaper = "running"
    /\ maxAge = 0
    /\ rcancel = FALSE
    /\ tick = FALSE
    /\ nextFire = ReaperInterval
    /\ created = <<>>
    /\ removed = 0
    /\ sweeps = 0
    /\ regops = 0
    /\ nadv = 0
    /\ cleanup = NoCleanup
    /\ locks = [c \in Components |-> NewRWMutex]
    /\ tprog = [t \in RegistryThreads |-> <<>>]
    /\ underLock = {}
    /\ lcalls = 0

\* a caller enters one of the registry's methods
BeginSessionOp(t) ==
    \E op \in {"CreateSession", "GetSession", "GetActiveSessions", "CleanupSession"} :
        /\ tprog[t] = <<>>
        /\ lcalls < MaxLockCalls
        /\ tprog' = [tprog EXCEPT ![t] = SessionManagerSteps(op)]
        /\ lcalls' = lcalls + 1
        /\ UNCHANGED <<locks, underLock>>
        /\ UNCHANGED notLockVars

\* the minute has passed: the ticker puts a tick in its channel
WorkerTickerFire ==
    /\ reaper = "running"
    /\ ~tick
    /\ sweeps < MaxSweeps
    /\ tick' = TRUE
    /\ UNCHANGED <<sessions, now, reaper, maxAge, rcancel, nextFire, created, removed, sweeps, regops, nadv, cleanup>>
    /\ UNCHANGED notRegVars

WorkerCancel ==
    /\ reaper = "running"
    /\ ~rcancel
    /\ rcancel' = TRUE
    /\ UNCHANGED <<sessions, now, reaper, maxAge, tick, nextFire, created, removed, sweeps, regops, nadv, cleanup>>
    /\ UNCHANGED notRegVars

\* select: case <-ticker.C: the worker calls sm.cleanupExpiredSessions(maxAge)
WorkerSweepBegin ==
    /\ reaper = "running"
    /\ tprog[Worker] = <<>>
    /\ tick
    /\ tick' = FALSE
    /\ sweeps' = sweeps + 1
    /\ tprog' = [tprog EXCEPT ![Worker] = SessionManagerSteps("cleanupExpiredSessions")]
    /\ UNCHANGED <<sessions, now, reaper, maxAge, rcancel, nextFire, created, removed, regops, nadv, cleanup>>
    /\ UNCHANGED <<locks, underLock, lcalls>>
    /\ UNCHANGED <<frameVars, plugVars, runVars, ctxVars>>

\* select: case <-ctx.Done()
WorkerExit ==
    /\ reaper = "running"
    /\ tprog[Worker] = <<>>
    /\ rcancel
    /\ reaper' = "stopped"
    /\ UNCHANGED <<sessions, now, maxAge, rcancel, tick, nextFire, created, removed, sweeps, regops, nadv, cleanup>>
    /\ UNCHANGED notRegVars

NextWorker ==
    \/ \E t \in Threads : BeginSessionOp(t)
    \/ WorkerTickerFire
    \/ WorkerCancel
    \/ WorkerSweepBegin
    \/ WorkerExit
    \/ \E t \in RegistryThreads :
        \/ LockCall(t)
        \/ LockAcquire(t)
        \/ RLockAcquire(t)
        \/ Unlock(t)
        \/ RUnlock(t)

SpecWorker == InitWorker /\ [][NextWorker]_vars

\* the worker is in its select, waiting for a tick or for cancellation, or gone
WorkerWaiting == tprog[Worker] = <<>>

\* C37: whenever the reaper waits for its next tick or for cancellation it
\* neither holds sm.mu nor has announced a Lock on it, so a caller of
\* GetSession, GetActiveSessions, CreateSession or CleanupSession that waits
\* for sm.mu waits for a scan or for another caller, never for the sleep.
C37_ReaperHoldsLockOnlyWhileScanning ==
    /\ WorkerWaiting =>
          /\ locks["sessions"].writer # Worker
          /\ Worker \notin locks["sessions"].pending
          /\ Worker \notin locks["sessions"].readers
    /\ \A t \in Threads :
          Blocked(t) => \E u \in RegistryThreads \ {t} :
                            tprog[u] # <<>> /\ ~Blocked(u)

\* the worker has scanned once and waits for its next tick while a caller
\* holds the registry's lock
C37_Witness ==
    /\ sweeps = 1
    /\ reaper = "running"
    /\ WorkerWaiting
    /\ ~tick
    /\ \E t \in Threads : "sessions" \in Holding(t)

-----------------------------------------------------------------------------
(* One process holding a SessionManager and a MemoryStorage *)

MaxStoreCalls == 2
MaxMixSteps == 5

\* the calls and clock steps made so far are within the budget of a run
MixBudget == regops + nops + nadv < MaxMixSteps

\* the two components of the process: the registry's map and the frame store
Process(sm, store) == [sm |-> sm, store |-> store]

\* a CleanupSession that deletes the frames stored under the session's id too
ProcessCleanupSessionAndFrames(w, id) ==
    [sm |-> CleanupSession(w.sm, id).sm, store |-> MemDeleteSession(w.store, id).st]

\* each method reaches the fields of its own receiver only
ProcessCreateSession(w, t, req) == [w EXCEPT !.sm = CreateSession(w.sm, t, req).sm]
ProcessCleanupSession(w, id) == [w EXCEPT !.sm = CleanupSession(w.sm, id).sm]
ProcessSweep(w, t, age) == [w EXCEPT !.sm = cleanupExpiredSessions(w.sm, t, age)]
ProcessPutFrame(w, f) == [w EXCEPT !.store = MemPutFrame(w.store, f).st]
ProcessDeleteSession(w, s) == [w EXCEPT !.store = MemDeleteSession(w.store, s).st]

InitMix ==
    /\ InitStores
    /\ InitSeqVars
    /\ InitProcVars
    /\ backend = "memory"
    /\ InitCtl

MixCreateSession ==
    \E req \in SessionRequests :
        LET w == ProcessCreateSession(Process(sessions, mem), now, req) IN
        /\ MixBudget
        /\ regops < MaxRegOps
        /\ sessions' = w.sm
        /\ mem' = w.store
        /\ created' = Append(created, generateSessionID(now))
        /\ regops' = regops + 1
        /\ UNCHANGED <<now, reaper, maxAge, rcancel, tick, nextFire, removed, sweeps, nadv, cleanup>>
        /\ UNCHANGED <<redis, seqVars, procVars, ctlTail>>

MixCleanupSession ==
    \E id \in DOMAIN sessions :
        LET w == ProcessCleanupSession(Process(sessions, mem), id) IN
        /\ MixBudget
        /\ regops < MaxRegOps
        /\ sessions' = w.sm
        /\ mem' = w.store
        /\ cleanup' = [id |-> id, found |-> TRUE, err |-> CleanupSession(sessions, id).err]
        /\ removed' = removed + 1
        /\ regops' = regops + 1
        /\ UNCHANGED <<now, reaper, maxAge, rcancel, tick, nextFire, created, sweeps, nadv>>
        /\ UNCHANGED <<redis, seqVars, procVars, ctlTail>>

\* the worker's tick case: cleanupExpiredSessions(maxAge)
MixReaperSweep ==
    LET w == ProcessSweep(Process(sessions, mem), now, maxAge) IN
    /\ reaper = "running"
    /\ tick
    /\ tick' = FALSE
    /\ sessions' = w.sm
    /\ mem' = w.store
    /\ removed' = removed + Cardinality(DOMAIN sessions) - Cardinality(DOMAIN w.sm)
    /\ sweeps' = sweeps + 1
    /\ UNCHANGED <<now, reaper, maxAge, rcancel, nextFire, created, regops, nadv, cleanup>>
    /\ UNCHANGED <<redis, seqVars, procVars, ctlTail>>

\* a runner stores a frame under the id of a session the registry holds
MixPutFrame ==
    \E s \in DOMAIN sessions, i \in Indices :
        LET w == ProcessPutFrame(Process(sessions, mem), Frame(s, i, 1)) IN
        /\ MixBudget
        /\ nops < MaxStoreCalls
        /\ sessions' = w.sm
        /\ mem' = w.store
        /\ last' = Call("PutFrame", s, i, 1)
        /\ nops' = nops + 1
        /\ UNCHANGED <<redis, mres, rres, pre, hist, ndel, procVars>>
        /\ UNCHANGED <<now, reaper, maxAge, rcancel, tick, nextFire, created, removed, sweeps, regops, nadv, cleanup>>
        /\ UNCHANGED ctlTail

MixDeleteSession ==
    \E s \in mem.sessions :
        LET w == ProcessDeleteSession(Process(sessions, mem), s) IN
        /\ MixBudget
        /\ nops < MaxStoreCalls
        /\ sessions' = w.sm
        /\ mem' = w.store
        /\ last' = Call("DeleteSession", s, 0, 0)
        /\ nops' = nops + 1
        /\ UNCHANGED <<redis, mres, rres, pre, hist, ndel, procVars>>
        /\ UNCHANGED <<now, reaper, maxAge, rcancel, tick, nextFire, created, removed, sweeps, regops, nadv, cleanup>>
        /\ UNCHANGED ctlTail

\* the clock moves on
MixAdvance == MixBudget /\ Advance

NextMix ==
    \/ MixCreateSession
    \/ MixCleanupSession
    \/ MixAdvance
    \/ StartCleanupWorker
    \/ MixReaperSweep
    \/ MixPutFrame
    \/ MixDeleteSession

SpecMix == InitMix /\ [][NextMix]_vars

\* C38: CreateSession, CleanupSession and the reaper's eviction leave the
\* frame store (frames and active-session set) as it was, and PutFrame and
\* DeleteSession leave the session registry as it was.
C38_RegistryAndStoreIndependent ==
    [][/\ (regops' # regops \/ sweeps' # sweeps) => mem' = mem
       /\ nops' # nops => sessions' = sessions]_vars

\* the registry has dropped a session whose frames the store still holds
C38_Witness ==
    /\ removed > 0
    /\ \E s \in Range(created) :
          /\ s \notin DOMAIN sessions
          /\ s \in mem.sessions
          /\ MemGetFrame(mem, s, 0).err = Nil

-----------------------------------------------------------------------------
(* The pointers GetPluginStatus and GetSession hand out *)

\* &PluginStatus{...}, &SessionInfo{...}: a new object at the next address
Allocate(h, obj) == [heap |-> Append(h, obj), ptr |-> Len(h) + 1]

\* pm.status and sm.sessions map a key to a pointer
Entry(m, key, ptr) == [k \in DOMAIN m \cup {key} |-> IF k = key THEN ptr ELSE m[k]]

\* what a caller holds after a Get: the pointer, and what it pointed to then
Reference(of, ptr, h) == [of |-> of, ptr |-> ptr, seen |-> h[ptr]]

InitRef ==
    /\ InitStores
    /\ InitSeqVars
    /\ InitProcVars
    /\ backend = "none"
    /\ InitCtl

\* StartPlugin: pm.status[name] = &PluginStatus{Running: true, StartTime: time.Now()}
RefStartPlugin ==
    \E k \in PluginTypes, n \in PluginNames :
        LET err == StartPlugin(plugins, <<>>, k, n, "png", pnops).err
            a == Allocate(heap, RunningStatus(pnops)) IN
        /\ pnops < MaxPlugOps
        /\ IF err = Nil
           THEN heap' = a.heap /\ status' = Entry(status, n, a.ptr)
           ELSE UNCHANGED <<heap, status>>
        /\ pres' = [err |-> err]
        /\ pcall' = PlugCall("StartPlugin", k, n, "", "png")
        /\ pnops' = pnops + 1
        /\ UNCHANGED <<plugins, reglog, started, opctx, held>>
        /\ UNCHANGED <<frameVars, regVars, lockVars, runVars>>

\* StopPlugin: status.Running = false; status.Error = nil, through the pointer
RefStopPlugin ==
    \E n \in PluginNames :
        LET running == n \in DOMAIN status /\ heap[status[n]].Running IN
        /\ pnops < MaxPlugOps
        /\ heap' = IF running
                   THEN [heap EXCEPT ![status[n]].Running = FALSE, ![status[n]].Error = Nil]
                   ELSE heap
        /\ pres' = [err |-> IF running THEN Nil ELSE ErrPluginNotRunning(n)]
        /\ pcall' = PlugCall("StopPlugin", "", n, "", "")
        /\ pnops' = pnops + 1
        /\ UNCHANGED <<plugins, status, reglog, started, opctx, held>>
        /\ UNCHANGED <<frameVars, regVars, lockVars, runVars>>

\* GetPluginStatus: return status, nil, the pointer the map holds
RefGetPluginStatus ==
    \E n \in PluginNames :
        /\ pnops < MaxPlugOps
        /\ held' = IF n \in DOMAIN status
                   THEN held \cup {Reference("PluginStatus", status[n], heap)}
                   ELSE held
        /\ pres' = [err |-> IF n \in DOMAIN status THEN Nil ELSE ErrStatusNotFound(n)]
        /\ pcall' = PlugCall("GetPluginStatus", "", n, "", "")
        /\ pnops' = pnops + 1
        /\ UNCHANGED <<plugins, status, reglog, started, opctx, heap>>
        /\ UNCHANGED <<frameVars, regVars, lockVars, runVars>>

\* CreateSession: sm.sessions[session.ID] = session, a new &SessionInfo{...}
RefCreateSession ==
    \E req \in SessionRequests :
        LET a == Allocate(heap, NewSessionInfo(now, req)) IN
        /\ regops < MaxRegOps
        /\ heap' = a.heap
        /\ sessions' = Entry(sessions, generateSessionID(now), a.ptr)
        /\ pcall' = PlugCall("CreateSession", "", "", "", "")
        /\ regops' = regops + 1
        /\ UNCHANGED <<now, reaper, maxAge, rcancel, tick, nextFire, created, removed, sweeps, nadv, cleanup>>
        /\ UNCHANGED <<plugins, status, pres, reglog, started, pnops, opctx, held>>
        /\ UNCHANGED <<frameVars, lockVars, runVars>>

\* GetSession: return session, exists, the pointer the map holds
RefGetSession ==
    \E id \in DOMAIN sessions :
        /\ regops < MaxRegOps
        /\ held' = held \cup {Reference("SessionInfo", sessions[id], heap)}
        /\ pcall' = PlugCall("GetSession", "", "", "", "")
        /\ regops' = regops + 1
        /\ UNCHANGED <<sessions, now, reaper, maxAge, rcancel, tick, nextFire, created, removed, sweeps, nadv, cleanup>>
        /\ UNCHANGED <<plugins, status, pres, reglog, started, pnops, opctx, heap>>
        /\ UNCHANGED <<frameVars, lockVars, runVars>>

\* a caller assigns to a field of the value it was returned
CallerWrite ==
    \E r \in held :
        /\ pnops < MaxPlugOps
        /\ heap' = IF r.of = "PluginStatus"
                   THEN [heap EXCEPT ![r.ptr].Running = ~@]
                   ELSE [heap EXCEPT ![r.ptr].Type = "changed"]
        /\ heap' # heap
        /\ pcall' = PlugCall("CallerWrite", "", "", "", "")
        /\ pnops' = pnops + 1
        /\ UNCHANGED <<plugins, status, pres, reglog, started, opctx, held>>
        /\ UNCHANGED <<frameVars, regVars, lockVars, runVars>>

NextRef ==
    \/ PlugRegister
    \/ RefStartPlugin
    \/ RefStopPlugin
    \/ RefGetPluginStatus
    \/ RefCreateSession
    \/ RefGetSession
    \/ CallerWrite

SpecRef == InitRef /\ [][NextRef]_vars

\* C39: the values GetPluginStatus and GetSession return are snapshots: each
\* shows for ever what it showed at the time of the call, whatever StopPlugin
\* does later, and an assignment a caller makes to the value it holds leaves
\* the entries of the manager and of the registry as they were.
C39_ReturnedValuesAreSnapshots ==
    /\ [](\A r \in held : heap[r.ptr] = r.seen)
    /\ [][pcall'.op = "CallerWrite" =>
             /\ \A n \in DOMAIN status : heap'[status'[n]] = heap[status[n]]
             /\ \A id \in DOMAIN sessions : heap'[sessions'[id]] = heap[sessions[id]]]_vars

-----------------------------------------------------------------------------
(* The tick interval of the camera *)

\* C40: Run never panics on the configuration Initialize accepted: the fps of
\* an initialized camera is a positive integer that gives a positive tick
\* interval.
C40_RunNeverPanicsOnConfig ==
    /\ cam.pc # "panicked"
    /\ cam.pc \in {"initialized", "select"} => (cam.fps > 0 /\ GoQuo(Second, cam.fps) > 0)

====
